---- MODULE Spec2Model ----
(***************************************************************************)
(* A model of the MCP client subsystem of the chatbot backend:             *)
(*   models/mcp.py                  MCPToolCall, MCPServerConfig           *)
(*   services/mcp_client.py         MCPProtocolClient                      *)
(*   services/mcp_client_manager.py MCPClientManager                       *)
(*   services/mcp_config_manager.py MCPConfigManager                       *)
(*   services/chat_service.py       ChatService.process_message            *)
(*                                                                         *)
(* The code runs on asyncio: a coroutine runs without interruption from    *)
(* one real suspension (a network round trip, a close, a gather, a held    *)
(* lock) to the next.  Every action below is one such segment: it takes a  *)
(* task whose innermost frame waits at a suspension point, delivers the    *)
(* event it waits for, and runs the task (through returns into its         *)
(* callers) up to its next suspension or its end.                          *)
(***************************************************************************)
EXTENDS Integers, Sequences, FiniteSets, TLC

\* ---------------------------------------------------------------- bounds
MaxTasks == 2        \* operations in flight at the same time
MaxOps == 3          \* operations started in one behaviour
MaxBatch == 2        \* call specs in one call_tools_parallel batch
MaxRestarts == 4     \* operations started in one behaviour of SpecRestart
MaxEntries == 2      \* server entries in one configuration document
MaxConfigOps == 3    \* calls of the configuration store in one behaviour
MaxLiveOps == 2      \* operations started in one behaviour of SpecCallsFair
MaxListed == 2       \* tools of one server in the cache that is searched
MaxKeywords == 2     \* keywords of one search
MaxThreads == 2      \* threads that call the error service
MaxLogged == 3       \* calls of the error service in one behaviour

VARIABLES
  obj,                \* the MCPProtocolClient objects ever constructed
  clients,            \* MCPClientManager.clients: server name -> object
  connected_servers,  \* MCPClientManager.connected_servers
  available_tools,    \* MCPClientManager.available_tools
  lock,               \* MCPClientManager._connection_lock: holder or 0
  enabled,            \* config store: server name -> enabled flag
  toolcalls,          \* the MCPToolCall objects ever constructed
  tasks,              \* the coroutines in flight
  ret,                \* what the operation that just returned gave back
  left,               \* operations the callers may still start
  servers,            \* MCPConfigManager.servers: the names, each with its object
  configs,            \* the MCPServerConfig objects ever constructed
  file,               \* the content of the configuration file
  error_stats,        \* ErrorService.error_stats
  threads             \* the threads inside ErrorService.log_error

vars == <<obj, clients, connected_servers, available_tools, lock, enabled,
          toolcalls, tasks, ret, left, servers, configs, file, error_stats, threads>>

\* ----------------------------------------------------------------- values
None == "None"                    \* Python None / JSON null
NoError == <<>>                   \* error is None; a message is a tuple of words
EmptyDict == "{}"                 \* an empty JSON object
NoRet == [k |-> "none"]
RetVal(v) == [k |-> "ret", v |-> v]
Raise(e) == [k |-> "exc", v |-> e]

\* Names are sequences of characters, so that str.strip() is computed.
SrvA == <<"s">>
SrvB == <<"t">>
Servers == {SrvA, SrvB}
ToolA == <<"a">>

\* The endpoint scheme of each configured server (MCPServerConfig.endpoint).
Endpoint(s) == IF s = SrvA THEN "http" ELSE "ws"
Schemes == {"http", "ws", "ftp"}

\* A tool descriptor as a server lists it: name, description ("get map")
\* and inputSchema.
ToolDef(n) ==
  [name |-> n,
   description |-> <<"g", "e", "t", " ", "m", "a", "p">>,
   inputSchema |-> [properties |-> [q |-> "string", n |-> "integer"],
                    required |-> <<"q">>]]
\* The catalog a server answers tools/list with: the second server also
\* lists a tool whose name is one space.
Catalog(s) == IF s = SrvA THEN <<ToolDef(ToolA)>>
              ELSE <<ToolDef(ToolA), ToolDef(<<" ">>)>>

\* str.strip()
RECURSIVE lstrip(_)
lstrip(v) == IF v # <<>> /\ Head(v) = " " THEN lstrip(Tail(v)) ELSE v
RECURSIVE rstrip(_)
rstrip(v) ==
  IF v # <<>> /\ v[Len(v)] = " " THEN rstrip(SubSeq(v, 1, Len(v) - 1)) ELSE v
strip(v) == rstrip(lstrip(v))

\* str.lower(): text is a tuple of characters
UpperCase == <<"A", "B", "C", "D", "E", "F", "G", "H", "I", "J", "K", "L", "M", "N", "O", "P", "Q", "R", "S", "T", "U", "V", "W", "X", "Y", "Z">>
LowerCase == <<"a", "b", "c", "d", "e", "f", "g", "h", "i", "j", "k", "l", "m", "n", "o", "p", "q", "r", "s", "t", "u", "v", "w", "x", "y", "z">>
lower(v) ==
  [i \in DOMAIN v |->
     IF \E k \in DOMAIN UpperCase : UpperCase[k] = v[i]
     THEN LowerCase[CHOOSE k \in DOMAIN UpperCase : UpperCase[k] = v[i]]
     ELSE v[i]]
\* sub in v, of two str
Contains(v, sub) ==
  \E i \in 0..(Len(v) - Len(sub)) : SubSeq(v, i + 1, i + Len(sub)) = sub
\* str.split(): the words between the runs of blanks
RECURSIVE split(_)
split(v) ==
  LET w == lstrip(v)
      blanks == {i \in DOMAIN w : w[i] = " "}
      n == IF blanks = {} THEN Len(w) + 1
           ELSE CHOOSE i \in blanks : \A j \in blanks : i <= j
  IN IF w = <<>> THEN <<>>
     ELSE <<SubSeq(w, 1, n - 1)>> \o split(SubSeq(w, n, Len(w)))

\* bool(x) of a member of a JSON reply: absent, null and {} are falsy.
Truthy(x) == x \notin {"absent", "null", EmptyDict, None}

\* dict.get(key, default): the default only when the key is absent.
Get(x, default) == IF x = "absent" THEN default ELSE IF x = "null" THEN None ELSE x

\* ----------------------------------------------------------- ErrorService
\* ErrorService.__init__ and clear_stats: the statistics start empty
NewErrorStats ==
  [total_errors |-> 0, errors_by_category |-> <<>>, errors_by_severity |-> <<>>,
   recent_errors |-> <<>>]

\* ------------------------------------------------------------ MCPToolCall
\* The field validator of server_name and tool_name.
validate_names_ok(v) == strip(v) # <<>>

\* MCPToolCall(server_name=, tool_name=, parameters=): ok is false when a
\* validator raises.
MCPToolCall(server_name, tool_name, parameters) ==
  [ok |-> validate_names_ok(server_name) /\ validate_names_ok(tool_name),
   tc |-> [server_name |-> strip(server_name),
           tool_name |-> strip(tool_name),
           parameters |-> parameters,
           result |-> None,
           error |-> NoError,
           status |-> "pending"]]

mark_success(tc, result) ==
  [tc EXCEPT !.result = result, !.status = "success", !.error = NoError]

mark_error(tc, error_message) ==
  [tc EXCEPT !.error = error_message, !.status = "error", !.result = None]

\* a mark_timeout that sets the status only
mark_timeout_status_only(tc) == [tc EXCEPT !.status = "timeout"]

mark_timeout(tc) ==
  [tc EXCEPT !.error = <<"Tool call timed out">>, !.status = "timeout",
             !.result = None]

\* ------------------------------------------------------ MCPProtocolClient
\* MCPProtocolClient.__init__: the handles are None, no connection type
NewClient(name, scheme) ==
  [name |-> name, scheme |-> scheme,
   session |-> 0, websocket |-> 0,
   connection_type |-> "none", is_connected |-> FALSE,
   available_tools |-> <<>>, server_info |-> EmptyDict,
   request_id_counter |-> 0, issued |-> <<>>,
   opened |-> 0, live |-> {}, unanswered |-> {}]

\* The aiohttp sessions and websockets a client creates are numbered in the
\* order it creates them; session and websocket hold such a number (0 for
\* None), opened is how many it has created and live the ones still open.
\* issued lists the request ids the client has handed out.  unanswered has
\* the tools/call requests sent over a websocket to which no task has read
\* the reply yet, each as <<websocket, request id>>.
Open(cl) == [cl EXCEPT !.opened = @ + 1, !.live = @ \cup {cl.opened + 1}]
\* a close that starts the request ids anew
Close_resets_ids(cl, h) == [cl EXCEPT !.live = @ \ {h}, !.request_id_counter = 0]

Close(cl, h) == [cl EXCEPT !.live = @ \ {h}]

\* _get_next_request_id: the id "{name}-{n}" is the pair of its two parts
_get_next_request_id(cl) ==
  LET c1 == [cl EXCEPT !.request_id_counter = @ + 1]
  IN [c1 EXCEPT !.issued = Append(@, <<c1.name, c1.request_id_counter>>)]

\* ------------------------------------------------------------- the tasks
\* One state of the whole program, as a record, for the sequential code
\* between two suspensions to be written as functions on it.
State ==
  [obj |-> obj, clients |-> clients, connected_servers |-> connected_servers,
   available_tools |-> available_tools, lock |-> lock, enabled |-> enabled,
   toolcalls |-> toolcalls, tasks |-> tasks]

\* A task: the operation op of the caller that started it (or the task
\* parent that gathers it), the stack of its coroutines' frames, the value
\* rv that the last coroutine returned and the frame it returned from.
NewTask(op, frame, parent) ==
  [op |-> op, stack |-> <<frame>>, rv |-> NoRet, last |-> <<>>,
   parent |-> parent]

Stack(S, t) == S.tasks[t].stack
Top(S, t) == Stack(S, t)[Len(Stack(S, t))]
SetTop(S, t, f) == [S EXCEPT !.tasks[t].stack[Len(Stack(S, t))] = f]
SetPc(S, t, pc) == SetTop(S, t, [Top(S, t) EXCEPT !.pc = pc])
Push(S, t, f) == [S EXCEPT !.tasks[t].stack = Append(@, f)]
\* return (or raise) out of the innermost frame, into the caller
Return(S, t, rv) ==
  [S EXCEPT !.tasks[t].stack = SubSeq(@, 1, Len(@) - 1), !.tasks[t].rv = rv,
            !.tasks[t].last = Top(S, t)]
SetObj(S, c, cl) == [S EXCEPT !.obj[c] = cl]
Finished(S, t) == Stack(S, t) = <<>>

\* the smallest task id not in use
NewId(S) ==
  CHOOSE i \in 1..(Cardinality(DOMAIN S.tasks) + 1) :
    i \notin DOMAIN S.tasks /\ \A j \in 1..(i - 1) : j \in DOMAIN S.tasks
TopLevel == {t \in DOMAIN tasks : tasks[t].parent = 0}

\* ------------------------------------------------- _send_request, its start
\* The part of _send_request that runs before it first suspends: the id is
\* taken, then the transport is chosen by connection_type.  go = "inflight"
\* when the request is on the wire, "exc" when it raised at once.
SendRequest(cl) ==
  LET c1 == _get_next_request_id(cl) IN
  IF c1.connection_type = "websocket"
  THEN [cl |-> c1, go |-> IF c1.websocket = 0 THEN "exc" ELSE "inflight",
        via |-> "ws", h |-> c1.websocket]
  ELSE IF c1.connection_type = "http"
  THEN [cl |-> c1, go |-> IF c1.session = 0 THEN "exc" ELSE "inflight",
        via |-> "http", h |-> c1.session]
  ELSE [cl |-> c1, go |-> "exc", via |-> "none", h |-> 0]

\* How the request in flight of frame f on client cl can end: a JSON reply,
\* a timeout, another exception, and on a websocket ConnectionClosed
\* ("lost").  Once its transport is closed, no reply comes any more.
Ends(f, cl) ==
  IF f.h \in cl.live
  THEN IF f.via = "ws" THEN {"reply", "timeout", "exc", "lost"}
       ELSE {"reply", "timeout", "exc"}
  ELSE IF f.via = "ws" THEN {"exc", "lost"} ELSE {"exc"}

\* _send_websocket_request on ConnectionClosed / WebSocketException: the
\* socket of the request is closed and the client marks itself
Lost(cl, f) ==
  IF f.ev.k = "lost" THEN [Close(cl, f.h) EXCEPT !.is_connected = FALSE] ELSE cl

\* A frame of a coroutine.  c: the client object it runs on; a: its
\* arguments; l: its locals; via, h: the transport its request in flight or
\* its close went to; ev: the event delivered to it (none while it is suspended).
Frame(fn, c, a) ==
  [fn |-> fn, pc |-> "start", c |-> c, a |-> a, l |-> <<>>, via |-> "none",
   h |-> 0, ev |-> NoRet]
\* connect's frame: how opening the transport ended, and init_response
ConnectFrame(c) ==
  [Frame("connect", c, <<>>) EXCEPT !.l = [open |-> "-", init_response |-> "-"]]
\* the locals of the innermost frame
SetLocal(S, t, l) == SetTop(S, t, [Top(S, t) EXCEPT !.l = l])

WaitPcs == {"w_start", "w_open", "w_init", "w_notif", "w_disc", "w_wsclose", "w_sclose",
            "w_ping", "w_list", "w_call", "w_lock", "w_gather", "w_generate"}
Waiting(f) == f.pc \in WaitPcs /\ f.ev.k = "none"
\* suspend the innermost frame at pc
Wait(S, t, pc) == SetTop(S, t, [Top(S, t) EXCEPT !.pc = pc, !.ev = NoRet])
WaitVia(S, t, pc, d) ==
  SetTop(S, t, [Top(S, t) EXCEPT !.pc = pc, !.ev = NoRet, !.via = d.via,
                                 !.h = d.h])

\* ------------------------------------------- MCPProtocolClient.connect
\* connect's except branch
\* an except branch that returns False and leaves is_connected as it is
connect_fail_keeps_flag(S, t) == Return(S, t, RetVal(FALSE))

connect_fail(S, t) ==
  LET c == Top(S, t).c IN
  Return(SetObj(S, c, [S.obj[c] EXCEPT !.is_connected = FALSE]), t,
         RetVal(FALSE))

\* the end of connect's try block
connect_ok(S, t) ==
  LET c == Top(S, t).c IN
  Return(SetObj(S, c, [S.obj[c] EXCEPT !.is_connected = TRUE]), t,
         RetVal(TRUE))

\* _initialize_connection up to the initialize request
connect_initialize(S, t) ==
  LET c == Top(S, t).c
      d == SendRequest(S.obj[c])
      S1 == SetObj(S, c, d.cl)
  IN IF d.go = "inflight" THEN WaitVia(S1, t, "w_init", d)
     ELSE connect_fail(S1, t)

\* connect up to its first suspension: the scheme picks the transport
connect_start(S, t) ==
  LET c == Top(S, t).c
      cl == S.obj[c]
  IN IF cl.scheme = "ws" THEN Wait(S, t, "w_open")
     ELSE IF cl.scheme = "http"
     THEN connect_initialize(
            SetObj(S, c, [Open(cl) EXCEPT !.session = cl.opened + 1,
                                          !.connection_type = "http"]), t)
     ELSE connect_fail(S, t)

\* _connect_websocket after websockets.connect
connect_opened(S, t) ==
  LET f == Top(S, t)
      cl == S.obj[f.c]
      S1 == SetLocal(S, t, [f.l EXCEPT !.open = f.ev.k])
  IN IF f.ev.k = "ok"
     THEN connect_initialize(
            SetObj(S1, f.c, [Open(cl) EXCEPT !.websocket = cl.opened + 1,
                                             !.connection_type = "websocket"]), t)
     ELSE connect_fail(S1, t)

\* _discover_tools up to the tools/list request; an exception is swallowed
connect_discover(S, t) ==
  LET c == Top(S, t).c
      d == SendRequest(S.obj[c])
      S1 == SetObj(S, c, d.cl)
  IN IF d.go = "inflight" THEN WaitVia(S1, t, "w_disc", d)
     ELSE connect_ok(S1, t)

\* an _initialize_connection that does not look at the reply's error
connect_initialized_ignores_error(S, t) ==
  LET f == Top(S, t)
      cl == Lost(S.obj[f.c], f)
      init_response == IF f.ev.k = "reply" THEN f.ev.r ELSE f.ev.k
      S1 == SetObj(SetLocal(S, t, [f.l EXCEPT !.init_response = init_response]),
                   f.c, cl)
  IN IF f.ev.k = "reply"
     THEN Wait(SetObj(S1, f.c, [cl EXCEPT !.server_info = "info"]), t, "w_notif")
     ELSE connect_fail(S1, t)

\* _initialize_connection after the reply to initialize, up to the
\* initialized notification
connect_initialized(S, t) ==
  LET f == Top(S, t)
      cl == Lost(S.obj[f.c], f)
      init_response == IF f.ev.k = "reply" THEN f.ev.r ELSE f.ev.k
      S1 == SetObj(SetLocal(S, t, [f.l EXCEPT !.init_response = init_response]),
                   f.c, cl)
  IN IF f.ev.k = "reply" /\ f.ev.r = "ok"
     THEN LET S2 == SetObj(S1, f.c, [cl EXCEPT !.server_info = "info"]) IN
          IF \/ cl.connection_type = "websocket" /\ cl.websocket # 0
             \/ cl.connection_type = "http" /\ cl.session # 0
          THEN Wait(S2, t, "w_notif")
          ELSE connect_discover(S2, t)
     ELSE connect_fail(S1, t)

\* _send_notification returned (its exceptions are swallowed)
connect_notified(S, t) == connect_discover(S, t)

\* _discover_tools after the reply to tools/list
connect_discovered(S, t) ==
  LET f == Top(S, t)
      cl == Lost(S.obj[f.c], f)
      c2 == IF f.ev.k = "reply" /\ f.ev.r = "tools"
            THEN [cl EXCEPT !.available_tools = Catalog(cl.name)]
            ELSE IF f.ev.k = "reply" /\ f.ev.r = "notools"
            THEN [cl EXCEPT !.available_tools = <<>>]
            ELSE cl
  IN connect_ok(SetObj(S, f.c, c2), t)

\* ---------------------------------------- MCPProtocolClient.disconnect
\* the last two assignments of disconnect's try block
disconnect_reset(S, t) ==
  LET c == Top(S, t).c IN
  Return(SetObj(S, c, [S.obj[c] EXCEPT !.is_connected = FALSE,
                                       !.connection_type = "none"]), t,
         RetVal(None))

\* disconnect from "if self.session" on
disconnect_session(S, t) ==
  LET cl == S.obj[Top(S, t).c] IN
  IF cl.session # 0
  THEN WaitVia(S, t, "w_sclose", [via |-> "http", h |-> cl.session])
  ELSE disconnect_reset(S, t)

disconnect_start(S, t) ==
  LET cl == S.obj[Top(S, t).c] IN
  IF cl.websocket # 0
  THEN WaitVia(S, t, "w_wsclose", [via |-> "ws", h |-> cl.websocket])
  ELSE disconnect_session(S, t)

\* after await self.websocket.close()
disconnect_wsclosed(S, t) ==
  LET f == Top(S, t) IN
  IF f.ev.k = "ok"
  THEN disconnect_session(
         SetObj(S, f.c, [Close(S.obj[f.c], f.h) EXCEPT !.websocket = 0]), t)
  ELSE Return(S, t, RetVal(None))

\* after await self.session.close()
disconnect_sclosed(S, t) ==
  LET f == Top(S, t) IN
  IF f.ev.k = "ok"
  THEN disconnect_reset(
         SetObj(S, f.c, [Close(S.obj[f.c], f.h) EXCEPT !.session = 0]), t)
  ELSE Return(S, t, RetVal(None))

\* -------------------------------------- MCPProtocolClient.health_check
health_check_start(S, t) ==
  LET c == Top(S, t).c
      d == SendRequest(S.obj[c])
  IN IF ~S.obj[c].is_connected THEN Return(S, t, RetVal(FALSE))
     ELSE IF d.go = "inflight"
     THEN WaitVia(SetObj(S, c, d.cl), t, "w_ping", d)
     ELSE Return(SetObj(S, c, d.cl), t, RetVal(FALSE))

health_check_replied(S, t) ==
  LET f == Top(S, t) IN
  Return(SetObj(S, f.c, Lost(S.obj[f.c], f)), t,
         RetVal(f.ev.k = "reply" /\ f.ev.r = "ok"))

\* ---------------------------------------- MCPProtocolClient.list_tools
list_tools_start(S, t) ==
  LET c == Top(S, t).c
      d == SendRequest(S.obj[c])
  IN IF ~S.obj[c].is_connected THEN Return(S, t, Raise("MCPConnectionError"))
     ELSE IF d.go = "inflight"
     THEN WaitVia(SetObj(S, c, d.cl), t, "w_list", d)
     ELSE Return(SetObj(S, c, d.cl), t, Raise("MCPProtocolError"))

list_tools_replied(S, t) ==
  LET f == Top(S, t)
      S1 == SetObj(S, f.c, Lost(S.obj[f.c], f))
  IN IF f.ev.k = "reply" /\ f.ev.r = "tools"
     THEN Return(S1, t, RetVal(Catalog(S.obj[f.c].name)))
     ELSE IF f.ev.k = "reply" /\ f.ev.r = "notools"
     THEN Return(S1, t, RetVal(<<>>))
     ELSE Return(S1, t, Raise("MCPProtocolError"))

\* ----------------------------------------- MCPProtocolClient.call_tool
\* a marking that lands on the first ToolCall ever made
SetCall_first(S, i, tc) == [S EXCEPT !.toolcalls[1] = tc]

\* websocket.send(request) of a tools/call: the server has one more request
\* to answer on this socket
Sent(d, request_id) ==
  IF d.go = "inflight" /\ d.via = "ws"
  THEN [d.cl EXCEPT !.unanswered = @ \cup {<<d.h, request_id>>}]
  ELSE d.cl

\* websocket.recv() returned the reply to the request ev.id: whoever called
\* recv has taken it off the socket
Received(cl, f) ==
  IF f.ev.k = "reply" /\ f.via = "ws"
  THEN [cl EXCEPT !.unanswered = @ \ {<<f.h, f.ev.id>>}]
  ELSE cl

\* the ToolCall a frame holds is l.tc, its index in toolcalls
SetCall(S, i, tc) == [S EXCEPT !.toolcalls[i] = tc]

call_tool_start(S, t) ==
  LET f == Top(S, t)
      cl == S.obj[f.c]
      new == MCPToolCall(cl.name, f.a.tool_name, f.a.parameters)
      i == Len(S.toolcalls) + 1
      S1 == SetTop([S EXCEPT !.toolcalls = Append(@, new.tc)], t,
                   [f EXCEPT !.l = [tc |-> i]])
      d == SendRequest(cl)
      request_id == d.cl.issued[Len(d.cl.issued)]
      S2 == SetObj(S1, f.c, d.cl)
      S3 == SetLocal(SetObj(S1, f.c, Sent(d, request_id)), t,
                     [tc |-> i, request_id |-> request_id])
  IN IF ~new.ok THEN Return(S, t, Raise("ValidationError"))
     ELSE IF ~cl.is_connected
     THEN Return(SetCall(S1, i, mark_error(new.tc, <<"Not connected to MCP server">>)),
                 t, RetVal(i))
     ELSE IF d.go = "inflight" THEN WaitVia(S3, t, "w_call", d)
     ELSE Return(SetCall(S2, i, mark_error(new.tc, <<"No active connection">>)),
                 t, RetVal(i))

\* a timeout handled like a lost connection
call_tool_replied_lost(S, t) ==
  LET f == Top(S, t)
      i == f.l.tc
      cl == S.obj[f.c]
      S1 == SetObj(S, f.c, IF f.ev.k = "timeout"
                           THEN [cl EXCEPT !.is_connected = FALSE] ELSE cl)
  IN IF f.ev.k = "timeout"
     THEN Return(SetCall(S1, i, mark_timeout(S.toolcalls[i])), t, RetVal(i))
     ELSE Return(S, t, Raise("unused"))

\* call_tool after the reply to tools/call, or after what it raised
call_tool_replied(S, t) ==
  LET f == Top(S, t)
      i == f.l.tc
      tc == S.toolcalls[i]
      S1 == SetObj(S, f.c, Received(Lost(S.obj[f.c], f), f))
  IN IF f.ev.k = "reply"
     THEN IF Truthy(f.ev.r.error)
          THEN Return(SetCall(S1, i, mark_error(tc, <<"rpc error", f.ev.r.error>>)), t, RetVal(i))
          ELSE Return(SetCall(S1, i, mark_success(tc, Get(f.ev.r.result, EmptyDict))),
                      t, RetVal(i))
     ELSE IF f.ev.k = "timeout"
     THEN Return(SetCall(S1, i, mark_timeout(tc)), t, RetVal(i))
     ELSE Return(SetCall(S1, i, mark_error(tc, <<"request failed", f.ev.k>>)), t, RetVal(i))

\* ------------------------------------------------------ MCPClientManager
\* dict and list helpers
Put(f, k, v) == (k :> v) @@ f
Del(f, k) == [x \in DOMAIN f \ {k} |-> f[x]]
Range(q) == {q[i] : i \in DOMAIN q}
IndexOf(q, x) == CHOOSE i \in DOMAIN q : q[i] = x

\* the order of the servers in the configuration store
ServerOrder == <<SrvA, SrvB>>
InOrder(order, set) == SelectSeq(order, LAMBDA x : x \in set)

\* call a coroutine: the caller goes on at pc when it returns
Call(S, t, pc, frame) == Push(SetPc(S, t, pc), t, frame)

\* a coroutine handed to asyncio.gather: a task that has not run yet
ChildFrame(frame) == [frame EXCEPT !.pc = "w_start"]

RECURSIVE SpawnAll(_, _, _, _)
SpawnAll(S, t, frames, ids) ==
  IF frames = <<>> THEN [S |-> S, ids |-> ids]
  ELSE LET i == NewId(S) IN
       SpawnAll([S EXCEPT !.tasks = (i :> NewTask(<<>>, Head(frames), t)) @@ @],
                t, Tail(frames), Append(ids, i))

\* await asyncio.gather(*frames, return_exceptions=True): the children are
\* scheduled and the caller waits for all of them, keeping the locals l
Gather(S, t, frames, l) ==
  LET r == SpawnAll(S, t, frames, <<>>) IN
  SetTop(r.S, t, [Top(r.S, t) EXCEPT !.pc = "w_gather", !.ev = NoRet,
                                     !.l = [children |-> r.ids] @@ l])

\* the results of gather, in the order of the coroutines given to it
Results(S, t) ==
  LET ids == Top(S, t).l.children IN [i \in DOMAIN ids |-> S.tasks[ids[i]].rv]
\* the finished children leave the task table; the caller keeps, as ended,
\* the frame each of them ended in
Reap(S, t) ==
  LET f == Top(S, t)
      ids == f.l.children
      ended == [i \in DOMAIN ids |-> S.tasks[ids[i]].last]
      S1 == SetTop(S, t, [f EXCEPT !.l = [ended |-> ended] @@ @])
  IN [S1 EXCEPT !.tasks = [x \in DOMAIN @ \ Range(ids) |-> @[x]]]
AllDone(S, t) ==
  \A i \in Range(Top(S, t).l.children) : S.tasks[i].stack = <<>>

\* MCPConfigManager.get_enabled_servers
get_enabled_servers(S) == {x \in Servers : S.enabled[x]}

\* ---- connect_to_servers
\* under the lock: a client for every enabled server that has none, and one
\* _connect_single_server per new client
connect_to_servers_locked_retries(S, t) ==
  LET f == Top(S, t)
      new == InOrder(ServerOrder, f.l.enabled_servers \ S.connected_servers)
      n == Len(S.obj)
      S1 == [S EXCEPT
               !.lock = t,
               !.obj = @ \o [i \in DOMAIN new |-> NewClient(new[i], Endpoint(new[i]))],
               !.clients = [x \in DOMAIN S.clients \cup Range(new) |->
                              IF x \in DOMAIN S.clients THEN S.clients[x]
                              ELSE n + IndexOf(new, x)]]
      frames == [i \in DOMAIN new |->
                   ChildFrame(Frame("_connect_single_server", n + i,
                                    [server_name |-> new[i]]))]
  IN IF new = <<>> THEN Return([S1 EXCEPT !.lock = 0], t, RetVal(None))
     ELSE Gather(S1, t, frames, f.l)

connect_to_servers_locked(S, t) ==
  LET f == Top(S, t)
      new == InOrder(ServerOrder, f.l.enabled_servers \ DOMAIN S.clients)
      n == Len(S.obj)
      S1 == [S EXCEPT
               !.lock = t,
               !.obj = @ \o [i \in DOMAIN new |-> NewClient(new[i], Endpoint(new[i]))],
               !.clients = [x \in DOMAIN S.clients \cup Range(new) |->
                              IF x \in DOMAIN S.clients THEN S.clients[x]
                              ELSE n + IndexOf(new, x)]]
      frames == [i \in DOMAIN new |->
                   ChildFrame(Frame("_connect_single_server", n + i,
                                    [server_name |-> new[i]]))]
  IN IF new = <<>> THEN Return([S1 EXCEPT !.lock = 0], t, RetVal(None))
     ELSE Gather(S1, t, frames, f.l)

connect_to_servers_start(S, t) ==
  LET es == get_enabled_servers(S)
      S1 == SetLocal(S, t, [enabled_servers |-> es])
  IN IF es = {} THEN Return(S, t, RetVal(None))
     ELSE IF S.lock = 0 THEN connect_to_servers_locked(S1, t)
     ELSE Wait(S1, t, "w_lock")

\* after the gather: the lock is released
connect_to_servers_gathered(S, t) ==
  Return([Reap(S, t) EXCEPT !.lock = 0], t, RetVal(None))

\* ---- _connect_single_server
connect_single_server_start(S, t) ==
  Call(S, t, "after_connect", ConnectFrame(Top(S, t).c))

\* after success = await client.connect()
connect_single_server_connected(S, t) ==
  LET f == Top(S, t)
      rv == S.tasks[t].rv
      x == f.a.server_name
      success == rv.k = "ret" /\ rv.v
      S1 == SetLocal(S, t, [success |-> success])
  IN IF success
     THEN Return([S1 EXCEPT
                    !.connected_servers = @ \cup {x},
                    !.available_tools = Put(@, x, S.obj[f.c].available_tools)],
                 t, RetVal(None))
     ELSE Return(S1, t, RetVal(None))

\* ---- disconnect_from_servers
\* the three clear() calls and the release of the lock
disconnect_from_servers_clear(S, t) ==
  Return([S EXCEPT !.connected_servers = {}, !.available_tools = <<>>,
                   !.clients = <<>>, !.lock = 0], t, RetVal(None))

disconnect_from_servers_locked(S, t) ==
  LET f == Top(S, t)
      S1 == [S EXCEPT !.lock = t]
      targets == InOrder(ServerOrder, DOMAIN S.clients \cap S.connected_servers)
      frames == [i \in DOMAIN targets |->
                   ChildFrame(Frame("disconnect", S.clients[targets[i]], <<>>))]
  IN IF targets = <<>> THEN disconnect_from_servers_clear(S1, t)
     ELSE Gather(S1, t, frames, <<>>)

\* a disconnect_from_servers that does not wait for the lock
disconnect_from_servers_barges(S, t) == disconnect_from_servers_locked(S, t)

disconnect_from_servers_start(S, t) ==
  IF S.lock = 0 THEN disconnect_from_servers_locked(S, t)
  ELSE Wait(S, t, "w_lock")

disconnect_from_servers_gathered(S, t) ==
  disconnect_from_servers_clear(Reap(S, t), t)

\* ---- reconnect_server
reconnect_server_connect(S, t) ==
  Call(S, t, "after_connect", ConnectFrame(Top(S, t).c))

reconnect_server_start(S, t) ==
  LET f == Top(S, t)
      x == f.a.server_name
  IN IF x \notin DOMAIN S.clients THEN Return(S, t, RetVal(FALSE))
     ELSE LET c == S.clients[x]
              S1 == SetTop(S, t, [f EXCEPT !.c = c])
          IN IF x \in S.connected_servers
             THEN Call(S1, t, "after_disconnect", Frame("disconnect", c, <<>>))
             ELSE reconnect_server_connect(S1, t)

\* after await client.disconnect()
reconnect_server_disconnected(S, t) ==
  LET x == Top(S, t).a.server_name IN
  reconnect_server_connect(
    [S EXCEPT !.connected_servers = @ \ {x}, !.available_tools = Del(@, x)], t)

\* after success = await client.connect()
reconnect_server_connected(S, t) ==
  LET f == Top(S, t)
      rv == S.tasks[t].rv
      x == f.a.server_name
  IN IF rv.k = "ret" /\ rv.v
     THEN Return([S EXCEPT
                    !.connected_servers = @ \cup {x},
                    !.available_tools = Put(@, x, S.obj[f.c].available_tools)],
                 t, RetVal(TRUE))
     ELSE Return(S, t, RetVal(FALSE))

\* ---- health_check_servers
\* a.order is the order in which list(self.connected_servers) yields
health_check_servers_start(S, t) ==
  LET f == Top(S, t)
      server_names == InOrder(f.a.order, S.connected_servers)
      checked == InOrder(server_names, DOMAIN S.clients)
      frames == [i \in DOMAIN checked |->
                   ChildFrame(Frame("_health_check_single_server",
                                    S.clients[checked[i]],
                                    [server_name |-> checked[i]]))]
  IN IF S.connected_servers = {} \/ checked = <<>>
     THEN Return(S, t, RetVal(<<>>))
     ELSE Gather(S, t, frames, [server_names |-> server_names])

\* results[i] is filed under server_names[i]
health_check_servers_gathered(S, t) ==
  LET f == Top(S, t)
      results == Results(S, t)
      names == f.l.server_names
      health_results ==
        [x \in {names[i] : i \in DOMAIN results} |->
           LET r == results[IndexOf(names, x)] IN
           IF r.k = "exc" THEN FALSE ELSE r.v]
  IN Return(Reap(S, t), t, RetVal(health_results))

\* ---- _health_check_single_server
health_check_single_server_start(S, t) ==
  Call(S, t, "after_health", Frame("health_check", Top(S, t).c, <<>>))

\* a _health_check_single_server that reports and evicts nothing
health_check_single_server_reports(S, t) ==
  LET rv == S.tasks[t].rv
      is_healthy == rv.k = "ret" /\ rv.v
  IN Return(SetLocal(S, t, [is_healthy |-> is_healthy]), t, RetVal(is_healthy))

\* after is_healthy = await client.health_check()
health_check_single_server_checked(S, t) ==
  LET x == Top(S, t).a.server_name
      rv == S.tasks[t].rv
      is_healthy == rv.k = "ret" /\ rv.v
      S1 == SetLocal(S, t, [is_healthy |-> is_healthy])
  IN IF is_healthy THEN Return(S1, t, RetVal(TRUE))
     ELSE IF rv.k = "ret"
     THEN Return([S1 EXCEPT !.connected_servers = @ \ {x},
                            !.available_tools = Del(@, x)], t, RetVal(FALSE))
     ELSE Return(S1, t, RetVal(FALSE))

\* ---- refresh_server_tools
refresh_server_tools_start(S, t) ==
  LET f == Top(S, t)
      x == f.a.server_name
  IN IF x \notin S.connected_servers THEN Return(S, t, RetVal(FALSE))
     ELSE IF x \notin DOMAIN S.clients THEN Return(S, t, RetVal(FALSE))
     ELSE Call(S, t, "after_list", Frame("list_tools", S.clients[x], <<>>))

\* after tools = await client.list_tools()
refresh_server_tools_listed(S, t) ==
  LET x == Top(S, t).a.server_name
      rv == S.tasks[t].rv
  IN IF rv.k = "ret"
     THEN Return([S EXCEPT !.available_tools = Put(@, x, rv.v)], t, RetVal(TRUE))
     ELSE Return(S, t, RetVal(FALSE))

\* ---- _validate_parameter_type: isinstance(value, type) on the Python type
\* of the value
_validate_parameter_type(value, expected_type) ==
  CASE expected_type = "string" -> value = "str"
    [] expected_type = "number" -> value \in {"int", "float", "bool"}
    [] expected_type = "integer" -> value \in {"int", "bool"}
    [] expected_type = "boolean" -> value = "bool"
    [] expected_type = "array" -> value = "list"
    [] expected_type = "object" -> value = "dict"
    [] OTHER -> TRUE

\* ---- _validate_tool_parameters: NoError for None, else the message.
\* parameters is the dict as the list of its items.
_validate_tool_parameters(server_tools, tool_name, parameters) ==
  LET found == SelectSeq(server_tools, LAMBDA tool : tool.name = tool_name)
      input_schema == found[1].inputSchema
      given == {parameters[i].name : i \in DOMAIN parameters}
      missing == SelectSeq(input_schema.required, LAMBDA r : r \notin given)
      bad == SelectSeq(parameters,
               LAMBDA kv : /\ kv.name \in DOMAIN input_schema.properties
                           /\ ~_validate_parameter_type(
                                 kv.value, input_schema.properties[kv.name]))
  IN IF found = <<>> THEN <<"Tool", tool_name, "not found on server">>
     ELSE IF missing # <<>>
     THEN <<"Required parameter", missing[1], "is missing">>
     ELSE IF bad # <<>>
     THEN <<"Parameter", bad[1].name, "has invalid type. Expected:",
            input_schema.properties[bad[1].name]>>
     ELSE NoError

\* ---- MCPClientManager.call_tool
\* a new ToolCall marked error is returned (the constructor may raise)
call_tool_reject(S, t, error_message) ==
  LET a == Top(S, t).a
      new == MCPToolCall(a.server_name, a.tool_name, a.parameters)
      i == Len(S.toolcalls) + 1
  IN IF ~new.ok THEN Return(S, t, Raise("ValidationError"))
     ELSE Return([S EXCEPT !.toolcalls = Append(@, mark_error(new.tc, error_message))],
                 t, RetVal(i))

manager_call_tool_start(S, t) ==
  LET a == Top(S, t).a
      x == a.server_name
      server_tools == IF x \in DOMAIN S.available_tools
                      THEN S.available_tools[x] ELSE <<>>
      validation_error ==
        _validate_tool_parameters(server_tools, a.tool_name, a.parameters)
  IN IF x \notin S.connected_servers
     THEN call_tool_reject(S, t, <<"Server", x, "is not connected">>)
     ELSE IF x \notin DOMAIN S.clients
     THEN call_tool_reject(S, t, <<"Client for server", x, "not found">>)
     ELSE IF validation_error # NoError
     THEN call_tool_reject(S, t, <<"Parameter validation failed:">> \o validation_error)
     ELSE Call(S, t, "after_call",
               Frame("call_tool", S.clients[x],
                     [tool_name |-> a.tool_name, parameters |-> a.parameters]))

\* return await client.call_tool(tool_name, parameters); the frame keeps, as
\* called, the frame the client's call_tool ended in
manager_call_tool_called(S, t) ==
  LET f == Top(S, t)
      S1 == SetTop(S, t, [f EXCEPT !.l = [called |-> S.tasks[t].last]])
  IN Return(S1, t, S.tasks[t].rv)

\* ---- call_tools_parallel
call_tools_parallel_start(S, t) ==
  LET tool_calls == Top(S, t).a.tool_calls
      frames == [i \in DOMAIN tool_calls |->
                   ChildFrame(Frame("MCPClientManager.call_tool", 0, tool_calls[i]))]
  IN IF tool_calls = <<>> THEN Return(S, t, RetVal(<<>>))
     ELSE Gather(S, t, frames, <<>>)

\* the loop over the gathered results from index i on: an exception becomes
\* a new ToolCall marked error; raised is set when its constructor raises
RECURSIVE Normalize(_, _, _, _, _)
Normalize(calls, tool_calls, results, i, final_results) ==
  IF i > Len(results)
  THEN [toolcalls |-> calls, final_results |-> final_results, raised |-> FALSE]
  ELSE IF results[i].k = "exc"
  THEN LET call_spec == tool_calls[i]
           new == MCPToolCall(call_spec.server_name, call_spec.tool_name,
                              call_spec.parameters)
       IN IF ~new.ok
          THEN [toolcalls |-> calls, final_results |-> final_results,
                raised |-> TRUE]
          ELSE Normalize(
                 Append(calls, mark_error(new.tc, <<"Tool call failed:", results[i].v>>)),
                 tool_calls, results, i + 1,
                 Append(final_results, Len(calls) + 1))
  ELSE Normalize(calls, tool_calls, results, i + 1,
                 Append(final_results, results[i].v))

call_tools_parallel_gathered(S, t) ==
  LET n == Normalize(S.toolcalls, Top(S, t).a.tool_calls, Results(S, t), 1, <<>>)
      S1 == [Reap(S, t) EXCEPT !.toolcalls = n.toolcalls]
  IN IF n.raised THEN Return(S1, t, Raise("ValidationError"))
     ELSE Return(S1, t, RetVal(n.final_results))

\* ------------------------------------------------------------ ChatService
\* The text of a reply is one of three kinds: "long" has 50 characters or
\* more and none of the hedging phrases, "short" has fewer, "hedged" is long
\* and has such a phrase.  The fallback text has 69 characters and no phrase.
FallbackResponse ==
  [content |-> "I'm experiencing some technical difficulties. Please try again later.",
   provider |-> "fallback", model |-> "none"]

\* a generate_response that lets a timeout through as it is
generate_response_raw_timeout(ev) ==
  CASE ev.k = "reply" ->
         RetVal([content |-> ev.r, provider |-> "openai", model |-> "m"])
    [] ev.k = "timeout" -> Raise("TimeoutError")
    [] OTHER -> Raise("AIProviderError")

\* AIService.generate_response, from how the provider's call ended: a
\* timeout becomes AIServiceError, every other exception AIProviderError
generate_response(ev) ==
  CASE ev.k = "reply" ->
         RetVal([content |-> ev.r, provider |-> "openai", model |-> "m"])
    [] ev.k = "timeout" -> Raise("AIServiceError")
    [] OTHER -> Raise("AIProviderError")

\* _generate_ai_response: except AIServiceError, which AIProviderError is too
_generate_ai_response(ev) ==
  LET r == generate_response(ev)
  IN IF r.k = "exc" /\ r.v \in {"AIServiceError", "AIProviderError"}
     THEN RetVal(FallbackResponse) ELSE r

\* _integrate_mcp_results: the response is the reply, followed by the names
\* of the tools whose results are appended to it
_integrate_mcp_results(ai_response, mcp_results) ==
  LET successful_results ==
        SelectSeq(mcp_results, LAMBDA r : r.status = "success" /\ Truthy(r.result))
  IN IF mcp_results # <<>> /\ ai_response \in {"short", "hedged"}
     THEN [text |-> ai_response,
           found |-> [i \in DOMAIN successful_results |-> successful_results[i].tool_name]]
     ELSE [text |-> ai_response, found |-> <<>>]

\* ChatService.tool_keywords
tool_keywords ==
  <<<<"s", "e", "a", "r", "c", "h">>,
    <<"f", "i", "n", "d">>,
    <<"l", "o", "o", "k", "u", "p">>,
    <<"g", "e", "t">>,
    <<"f", "e", "t", "c", "h">>,
    <<"r", "e", "t", "r", "i", "e", "v", "e">>,
    <<"w", "e", "a", "t", "h", "e", "r">>,
    <<"t", "e", "m", "p", "e", "r", "a", "t", "u", "r", "e">>,
    <<"f", "o", "r", "e", "c", "a", "s", "t">>,
    <<"f", "i", "l", "e">>,
    <<"r", "e", "a", "d">>,
    <<"w", "r", "i", "t", "e">>,
    <<"s", "a", "v", "e">>,
    <<"o", "p", "e", "n">>,
    <<"d", "a", "t", "a", "b", "a", "s", "e">>,
    <<"q", "u", "e", "r", "y">>,
    <<"d", "a", "t", "a">>,
    <<"i", "n", "f", "o", "r", "m", "a", "t", "i", "o", "n">>,
    <<"a", "p", "i">>,
    <<"c", "a", "l", "l">>,
    <<"r", "e", "q", "u", "e", "s", "t">>,
    <<"h", "t", "t", "p">>,
    <<"c", "a", "l", "c", "u", "l", "a", "t", "e">>,
    <<"c", "o", "m", "p", "u", "t", "e">>,
    <<"m", "a", "t", "h">>,
    <<"t", "r", "a", "n", "s", "l", "a", "t", "e">>,
    <<"l", "a", "n", "g", "u", "a", "g", "e">>,
    <<"t", "i", "m", "e">>,
    <<"d", "a", "t", "e">>,
    <<"s", "c", "h", "e", "d", "u", "l", "e">>,
    <<"c", "a", "l", "e", "n", "d", "a", "r">>>>

\* list.sort(key=relevance_score, reverse=True): stable, the first of the
\* tools with the highest score comes first
RECURSIVE sort_by_score(_)
sort_by_score_last_first(q) ==
  IF q = <<>> THEN <<>>
  ELSE LET best == {i \in DOMAIN q : \A j \in DOMAIN q :
                      q[j].relevance_score <= q[i].relevance_score}
           i == CHOOSE i \in best : \A j \in best : j <= i
       IN <<q[i]>> \o sort_by_score(SubSeq(q, 1, i - 1) \o SubSeq(q, i + 1, Len(q)))
sort_by_score(q) ==
  IF q = <<>> THEN <<>>
  ELSE LET best == {i \in DOMAIN q : \A j \in DOMAIN q :
                      q[j].relevance_score <= q[i].relevance_score}
           i == CHOOSE i \in best : \A j \in best : i <= j
       IN <<q[i]>> \o sort_by_score(SubSeq(q, 1, i - 1) \o SubSeq(q, i + 1, Len(q)))

\* the relevance score of one tool for a list of keywords
score(tool, keywords) ==
  3 * Cardinality({k \in DOMAIN keywords : Contains(lower(tool.name), lower(keywords[k]))})
  + Cardinality({k \in DOMAIN keywords :
                  Contains(lower(tool.description), lower(keywords[k]))})

\* find_tools_by_description(keywords) over the tool cache, whose servers
\* are in the order names: a copy of each tool with server_name and
\* relevance_score
find_tools_by_description(cache, names, keywords) ==
  LET RECURSIVE flat(_)
      flat(i) ==
        IF i > Len(names) THEN <<>>
        ELSE [j \in DOMAIN cache[names[i]] |->
                [name |-> cache[names[i]][j].name,
                 description |-> cache[names[i]][j].description,
                 inputSchema |-> cache[names[i]][j].inputSchema,
                 server_name |-> names[i],
                 relevance_score |-> score(cache[names[i]][j], keywords)]]
             \o flat(i + 1)
      matching_tools == SelectSeq(flat(1), LAMBDA x : x.relevance_score > 0)
  IN sort_by_score(matching_tools)

\* select_tools_for_query(query, max_tools=3): the words of the query
\* longer than two characters are the keywords
select_tools_for_query(S, query) ==
  LET first(relevant_tools) ==
        SubSeq(relevant_tools, 1, IF Len(relevant_tools) < 3 THEN Len(relevant_tools) ELSE 3)
      select(keywords) ==
        IF keywords = <<>> THEN <<>>
        ELSE first(find_tools_by_description(S.available_tools,
                     InOrder(ServerOrder, DOMAIN S.available_tools), keywords))
      lowered(words) == select([i \in DOMAIN words |-> strip(lower(words[i]))])
  IN lowered(SelectSeq(split(query), LAMBDA word : Len(strip(word)) > 2))

\* _should_use_mcp_tools(message): the tools to use, and whether
\* select_tools_for_query was called
_should_use_mcp_tools_any_message(S, message) ==
  [queried |-> TRUE, relevant_tools |-> select_tools_for_query(S, message)]
_should_use_mcp_tools(S, message) ==
  LET message_lower == lower(message)
      has_tool_keywords ==
        \E k \in DOMAIN tool_keywords : Contains(message_lower, tool_keywords[k])
  IN IF ~has_tool_keywords THEN [queried |-> FALSE, relevant_tools |-> <<>>]
     ELSE [queried |-> TRUE, relevant_tools |-> select_tools_for_query(S, message)]

\* the additional_context that _generate_ai_response gives the provider:
\* the names of the tools whose results it quotes, None when there is none
additional_context(S, mcp_results) ==
  LET context_parts ==
        SelectSeq(mcp_results, LAMBDA i : /\ S.toolcalls[i].status = "success"
                                          /\ Truthy(S.toolcalls[i].result))
  IN IF context_parts = <<>> THEN None
     ELSE [i \in DOMAIN context_parts |-> S.toolcalls[context_parts[i]].tool_name]

\* process_message up to _execute_mcp_tools' call of call_tools_parallel;
\* _generate_tool_parameters gives the message for the property q
process_message_generate(S, t, mcp_results) ==
  Wait(SetLocal(S, t, [mcp_results |-> mcp_results,
                       additional_context |-> additional_context(S, mcp_results),
                       queried |-> Top(S, t).l.queried]),
       t, "w_generate")

process_message_start(S, t) ==
  LET execute(S1, named) ==
        IF named = <<>> THEN process_message_generate(S1, t, <<>>)
        ELSE Call(S1, t, "after_execute",
                  Frame("call_tools_parallel", 0,
                        [tool_calls |->
                           [i \in DOMAIN named |->
                              [server_name |-> named[i].server_name,
                               tool_name |-> named[i].name,
                               parameters |-> <<[name |-> "q", value |-> "str"]>>]]]))
      use(should) ==
        execute(SetLocal(S, t, [queried |-> should.queried]),
                SelectSeq(should.relevant_tools,
                          LAMBDA x : x.server_name # <<>> /\ x.name # <<>>))
  IN use(_should_use_mcp_tools(S, Top(S, t).a.message))

\* an _execute_mcp_tools that lets the exception of call_tools_parallel out
process_message_executed_raises(S, t) ==
  LET rv == S.tasks[t].rv
  IN IF rv.k = "ret" THEN process_message_generate(S, t, rv.v)
     ELSE Return(SetLocal(S, t, [mcp_results |-> <<>>, additional_context |-> None,
                                 queried |-> TRUE]),
                 t, Raise("ChatServiceError"))

\* _execute_mcp_tools: an exception of call_tools_parallel gives no results
process_message_executed(S, t) ==
  LET rv == S.tasks[t].rv
  IN process_message_generate(S, t, IF rv.k = "ret" THEN rv.v ELSE <<>>)

\* process_message from the end of generate_response on
process_message_generated(S, t) ==
  LET f == Top(S, t)
      mcp_results == [i \in DOMAIN f.l.mcp_results |-> S.toolcalls[f.l.mcp_results[i]]]
      used == SelectSeq(mcp_results, LAMBDA r : r.status = "success")
      ai_response == _generate_ai_response(f.ev)
  IN IF ai_response.k = "exc" THEN Return(S, t, Raise("ChatServiceError"))
     ELSE Return(S, t, RetVal(
            [response |-> _integrate_mcp_results(ai_response.v.content, mcp_results),
             mcp_tools_used |-> [i \in DOMAIN used |-> used[i].tool_name],
             ai_provider |-> ai_response.v.provider,
             ai_model |-> ai_response.v.model]))

\* ------------------------------------------------------------ scheduling
\* the code of the innermost frame of t from where it stands
Segment(S, t) ==
  LET f == Top(S, t)
      at == <<f.fn, f.pc>>
      fn == f.fn
      pc == f.pc
      start == pc \in {"start", "w_start"}
  IN CASE fn = "connect" /\ start -> connect_start(S, t)
       [] at = <<"connect", "w_open">> -> connect_opened(S, t)
       [] at = <<"connect", "w_init">> -> connect_initialized(S, t)
       [] at = <<"connect", "w_notif">> -> connect_notified(S, t)
       [] at = <<"connect", "w_disc">> -> connect_discovered(S, t)
       [] fn = "disconnect" /\ start -> disconnect_start(S, t)
       [] at = <<"disconnect", "w_wsclose">> -> disconnect_wsclosed(S, t)
       [] at = <<"disconnect", "w_sclose">> -> disconnect_sclosed(S, t)
       [] fn = "health_check" /\ start -> health_check_start(S, t)
       [] at = <<"health_check", "w_ping">> -> health_check_replied(S, t)
       [] fn = "list_tools" /\ start -> list_tools_start(S, t)
       [] at = <<"list_tools", "w_list">> -> list_tools_replied(S, t)
       [] fn = "call_tool" /\ start -> call_tool_start(S, t)
       [] at = <<"call_tool", "w_call">> -> call_tool_replied(S, t)
       [] fn = "connect_to_servers" /\ start -> connect_to_servers_start(S, t)
       [] at = <<"connect_to_servers", "w_lock">> -> connect_to_servers_locked(S, t)
       [] at = <<"connect_to_servers", "w_gather">> -> connect_to_servers_gathered(S, t)
       [] fn = "_connect_single_server" /\ start -> connect_single_server_start(S, t)
       [] at = <<"_connect_single_server", "after_connect">> ->
            connect_single_server_connected(S, t)
       [] fn = "disconnect_from_servers" /\ start -> disconnect_from_servers_start(S, t)
       [] at = <<"disconnect_from_servers", "w_lock">> ->
            disconnect_from_servers_locked(S, t)
       [] at = <<"disconnect_from_servers", "w_gather">> ->
            disconnect_from_servers_gathered(S, t)
       [] fn = "reconnect_server" /\ start -> reconnect_server_start(S, t)
       [] at = <<"reconnect_server", "after_disconnect">> ->
            reconnect_server_disconnected(S, t)
       [] at = <<"reconnect_server", "after_connect">> ->
            reconnect_server_connected(S, t)
       [] fn = "health_check_servers" /\ start -> health_check_servers_start(S, t)
       [] at = <<"health_check_servers", "w_gather">> ->
            health_check_servers_gathered(S, t)
       [] fn = "_health_check_single_server" /\ start ->
            health_check_single_server_start(S, t)
       [] at = <<"_health_check_single_server", "after_health">> ->
            health_check_single_server_checked(S, t)
       [] fn = "refresh_server_tools" /\ start -> refresh_server_tools_start(S, t)
       [] at = <<"refresh_server_tools", "after_list">> ->
            refresh_server_tools_listed(S, t)
       [] fn = "MCPClientManager.call_tool" /\ start -> manager_call_tool_start(S, t)
       [] at = <<"MCPClientManager.call_tool", "after_call">> ->
            manager_call_tool_called(S, t)
       [] fn = "call_tools_parallel" /\ start -> call_tools_parallel_start(S, t)
       [] at = <<"call_tools_parallel", "w_gather">> ->
            call_tools_parallel_gathered(S, t)
       [] fn = "process_message" /\ start -> process_message_start(S, t)
       [] at = <<"process_message", "after_execute">> ->
            process_message_executed(S, t)
       [] at = <<"process_message", "w_generate">> ->
            process_message_generated(S, t)

\* run t until it suspends or ends
RECURSIVE Run(_, _)
Run(S, t) ==
  IF Finished(S, t) \/ Waiting(Top(S, t)) THEN S
  ELSE CHOOSE R \in {Run(N, t) : N \in {Segment(S, t)}} : TRUE

\* deliver ev to the suspended task t and run it
Resume(S, t, ev) == Run(SetTop(S, t, [Top(S, t) EXCEPT !.ev = ev]), t)

At(t, fn, pc) ==
  /\ t \in DOMAIN tasks
  /\ tasks[t].stack # <<>>
  /\ Top(State, t).fn = fn
  /\ Top(State, t).pc = pc
  /\ Waiting(Top(State, t))

\* the next state is S; an operation that ended leaves the task table and
\* hands its result to its caller
Commit(S, t) ==
  /\ obj' = S.obj
  /\ clients' = S.clients
  /\ connected_servers' = S.connected_servers
  /\ available_tools' = S.available_tools
  /\ lock' = S.lock
  /\ toolcalls' = S.toolcalls
  /\ IF Finished(S, t) /\ S.tasks[t].parent = 0
     THEN /\ tasks' = [x \in DOMAIN S.tasks \ {t} |-> S.tasks[x]]
          /\ ret' = [k |-> "returned", op |-> S.tasks[t].op,
                     rv |-> S.tasks[t].rv, frame |-> S.tasks[t].last]
     ELSE /\ tasks' = S.tasks
          /\ ret' = NoRet
  /\ enabled' = S.enabled
  /\ UNCHANGED <<servers, configs, file, error_stats, threads>>

\* a caller starts the operation op
CanStart == left > 0 /\ Cardinality(TopLevel) < MaxTasks
Begin(op, frame) ==
  /\ left' = left - 1
  /\ LET t == NewId(State) IN
     \E S \in {Run([State EXCEPT !.tasks = (t :> NewTask(op, frame, 0)) @@ tasks], t)} :
       Commit(S, t)

Event(t, ev) ==
  /\ \E S \in {Resume(State, t, ev)} : Commit(S, t)
  /\ UNCHANGED left

\* ------------------------------------- events of the protocol client
ReplyEvents(t, replies) ==
  \E k \in Ends(Top(State, t), obj[Top(State, t).c]) :
    IF k = "reply" THEN \E r \in replies : Event(t, [k |-> k, r |-> r])
    ELSE Event(t, [k |-> k, r |-> None])

\* websockets.connect returns or raises
WebsocketOpened(t) ==
  At(t, "connect", "w_open") /\ \E k \in {"ok", "exc"} : Event(t, [k |-> k, r |-> None])

\* the initialize request ends
InitializeDone(t) ==
  At(t, "connect", "w_init") /\ ReplyEvents(t, {"ok", "err"})

\* the initialized notification was sent or failed
NotificationDone(t) ==
  At(t, "connect", "w_notif") /\ \E k \in {"ok", "exc"} : Event(t, [k |-> k, r |-> None])

\* the tools/list request of _discover_tools ends
DiscoveryDone(t) ==
  At(t, "connect", "w_disc") /\ ReplyEvents(t, {"tools", "notools", "err"})

\* websocket.close() returns or raises
WebsocketClosed(t) ==
  At(t, "disconnect", "w_wsclose") /\ \E k \in {"ok", "exc"} : Event(t, [k |-> k, r |-> None])

\* session.close() returns or raises
SessionClosed(t) ==
  At(t, "disconnect", "w_sclose") /\ \E k \in {"ok", "exc"} : Event(t, [k |-> k, r |-> None])

\* the ping request ends
PingDone(t) ==
  At(t, "health_check", "w_ping") /\ ReplyEvents(t, {"ok", "err"})

\* the tools/list request of list_tools ends
ListDone(t) ==
  At(t, "list_tools", "w_list") /\ ReplyEvents(t, {"tools", "notools", "err"})

\* The replies to tools/call: the members error and result, each absent,
\* null, empty or filled.
CallReplies ==
  {[error |-> "absent", result |-> r] : r \in {"absent", "null", EmptyDict, "data"}}
  \cup {[error |-> "object", result |-> "absent"],
        [error |-> EmptyDict, result |-> "absent"],
        [error |-> "null", result |-> "data"]}

\* The requests a reply read by frame f can be the answer to.  An HTTP
\* response belongs to its own request.  websocket.recv() returns the next
\* message on the socket: the reply to any tools/call request sent on it
\* that is still unanswered, in the order the server chooses.
Answered(f, cl) ==
  IF f.via = "ws" THEN {x[2] : x \in {y \in cl.unanswered : y[1] = f.h}}
  ELSE {f.l.request_id}

\* the tools/call request ends
CallDone(t) ==
  /\ At(t, "call_tool", "w_call")
  /\ \E k \in Ends(Top(State, t), obj[Top(State, t).c]) :
       IF k = "reply"
       THEN \E r \in CallReplies, id \in Answered(Top(State, t), obj[Top(State, t).c]) :
              Event(t, [k |-> k, r |-> r, id |-> id])
       ELSE Event(t, [k |-> k, r |-> None])

TaskIds == 1..(MaxTasks * (1 + MaxBatch + Cardinality(Servers)))

ConnectionEvents ==
  \E t \in TaskIds :
    \/ WebsocketOpened(t)
    \/ InitializeDone(t)
    \/ NotificationDone(t)
    \/ DiscoveryDone(t)
    \/ WebsocketClosed(t)
    \/ SessionClosed(t)
    \/ PingDone(t)
    \/ ListDone(t)

CallEvents == \E t \in TaskIds : CallDone(t)

\* ---------------------------------------------- one client, many callers
\* The methods of one MCPProtocolClient, called by concurrent coroutines.
ToolNameInputs == {ToolA, <<" ">>, <<"a", " ">>}
NoParams == <<>>

\* connect()
CallConnect ==
  /\ CanStart
  /\ Begin([fn |-> "connect"], ConnectFrame(1))

\* disconnect(); the caller notes the client as it is at the call, whether
\* the previous call on this idle client was a disconnect that returned,
\* and how many calls have been made
CallDisconnect ==
  /\ CanStart
  /\ Begin([fn |-> "disconnect", pre |-> obj[1], n |-> left - 1,
            again |-> (ret.k = "returned" /\ ret.op.fn = "disconnect"
                       /\ tasks = <<>>)],
           Frame("disconnect", 1, <<>>))

\* health_check()
CallHealthCheck ==
  /\ CanStart
  /\ Begin([fn |-> "health_check"], Frame("health_check", 1, <<>>))

\* list_tools()
CallListTools ==
  /\ CanStart
  /\ Begin([fn |-> "list_tools"], Frame("list_tools", 1, <<>>))

\* call_tool(tool_name, parameters)
CallCallTool ==
  /\ CanStart
  /\ \E n \in ToolNameInputs :
       LET a == [tool_name |-> n, parameters |-> NoParams] IN
       Begin([fn |-> "call_tool", a |-> a, connected |-> obj[1].is_connected,
              base |-> Len(toolcalls)],
             Frame("call_tool", 1, a))

InitManager ==
  /\ clients = <<>>
  /\ connected_servers = {}
  /\ available_tools = <<>>
  /\ lock = 0
  /\ toolcalls = <<>>
  /\ tasks = <<>>
  /\ ret = NoRet
  /\ servers = <<>>
  /\ configs = <<>>

InitClient ==
  /\ \E scheme \in Schemes : obj = <<NewClient(SrvA, scheme)>>
  /\ enabled = [s \in Servers |-> TRUE]
  /\ left = MaxOps
  /\ file = [t |-> "missing"]
  /\ error_stats = NewErrorStats
  /\ threads = <<>>
  /\ InitManager

NextClient ==
  \/ CallConnect
  \/ CallDisconnect
  \/ CallHealthCheck
  \/ CallListTools
  \/ CallCallTool
  \/ ConnectionEvents
  \/ CallEvents

SpecClient == InitClient /\ [][NextClient]_vars

\* ------------------------------------------- events of the event loop
\* the event loop runs a coroutine that gather scheduled
TaskStarted(t) ==
  /\ t \in DOMAIN tasks
  /\ tasks[t].stack # <<>>
  /\ Top(State, t).pc = "w_start"
  /\ Waiting(Top(State, t))
  /\ Event(t, [k |-> "ok", r |-> None])

\* the lock is free and goes to a coroutine waiting for it
LockAcquired(t) ==
  /\ \E fn \in {"connect_to_servers", "disconnect_from_servers"} : At(t, fn, "w_lock")
  /\ lock = 0
  /\ Event(t, [k |-> "ok", r |-> None])

\* every coroutine of a gather has ended
GatherDone(t) ==
  /\ \E fn \in {"connect_to_servers", "disconnect_from_servers",
                "health_check_servers", "call_tools_parallel"} :
       At(t, fn, "w_gather")
  /\ AllDone(State, t)
  /\ Event(t, [k |-> "ok", r |-> None])

LoopEvents ==
  \E t \in TaskIds :
    \/ TaskStarted(t)
    \/ LockAcquired(t)
    \/ GatherDone(t)

\* --------------------------------------- the manager and its lifecycle
\* connect_to_servers(); the caller notes the manager as it is at the call
CallConnectToServers ==
  /\ CanStart
  /\ Begin([fn |-> "connect_to_servers", n |-> left - 1, idle |-> (tasks = <<>>)],
           Frame("connect_to_servers", 0, <<>>))

\* disconnect_from_servers()
CallDisconnectFromServers ==
  /\ CanStart
  /\ Begin([fn |-> "disconnect_from_servers"],
           Frame("disconnect_from_servers", 0, <<>>))

\* reconnect_server(server_name); the caller notes connected_servers and
\* available_tools as the method first reads them
CallReconnectServer ==
  /\ CanStart
  /\ \E x \in Servers :
       Begin([fn |-> "reconnect_server", server_name |-> x,
              read |-> [connected_servers |-> connected_servers,
                        available_tools |-> available_tools]],
             Frame("reconnect_server", 0, [server_name |-> x]))

\* health_check_servers(); the set connected_servers iterates in some
\* order; the caller notes connected_servers and available_tools at the call
Orders == {<<SrvA, SrvB>>, <<SrvB, SrvA>>}
CallHealthCheckServers ==
  /\ CanStart
  /\ \E order \in Orders :
       Begin([fn |-> "health_check_servers", n |-> left - 1,
              idle |-> (tasks = <<>>), tools |-> available_tools,
              connected_servers |-> connected_servers],
             Frame("health_check_servers", 0, [order |-> order]))

\* refresh_server_tools(server_name); the caller notes connected_servers
\* and available_tools as the method first reads them
CallRefreshServerTools ==
  /\ CanStart
  /\ \E x \in Servers :
       Begin([fn |-> "refresh_server_tools", server_name |-> x,
              read |-> [connected_servers |-> connected_servers,
                        available_tools |-> available_tools]],
             Frame("refresh_server_tools", 0, [server_name |-> x]))

InitLifecycle ==
  /\ obj = <<>>
  /\ enabled \in [Servers -> BOOLEAN]
  /\ left = MaxOps
  /\ file = [t |-> "missing"]
  /\ error_stats = NewErrorStats
  /\ threads = <<>>
  /\ InitManager

NextManager ==
  \/ CallConnectToServers
  \/ CallDisconnectFromServers
  \/ CallReconnectServer
  \/ CallHealthCheckServers
  \/ CallRefreshServerTools
  \/ ConnectionEvents
  \/ LoopEvents

SpecManager == InitLifecycle /\ [][NextManager]_vars

\* ------------------------------- connecting, reconnecting, disconnecting
\* One server is enabled; the callers connect, reconnect and disconnect.
InitRestart ==
  /\ obj = <<>>
  /\ enabled = [x \in Servers |-> x = SrvA]
  /\ left = MaxRestarts
  /\ file = [t |-> "missing"]
  /\ error_stats = NewErrorStats
  /\ threads = <<>>
  /\ InitManager

RestartEvents ==
  \E t \in TaskIds :
    \/ InitializeDone(t)
    \/ NotificationDone(t)
    \/ DiscoveryDone(t)
    \/ SessionClosed(t)

NextRestart ==
  \/ CallConnectToServers
  \/ CallDisconnectFromServers
  \/ CallReconnectServer
  \/ RestartEvents
  \/ LoopEvents

SpecRestart == InitRestart /\ [][NextRestart]_vars

\* ------------------------------------------------ searches of the tool cache
\* the tools in the cache: named "Get" or "map", described by nothing, by
\* "get" or by "a MAP"
SearchTools ==
  {[name |-> n, description |-> d, inputSchema |-> ToolDef(n).inputSchema] :
     n \in {<<"G", "e", "t">>, <<"m", "a", "p">>},
     d \in {<<>>, <<"g", "e", "t">>, <<"a", " ", "M", "A", "P">>}}
SearchCaches ==
  UNION {[D -> UNION {[1..n -> SearchTools] : n \in 0..MaxListed}] : D \in SUBSET Servers}
SearchKeywords ==
  UNION {[1..n -> {<<"g", "e", "t">>, <<"M", "A", "P">>}] : n \in 0..MaxKeywords}

\* find_tools_by_description(keywords) on a manager whose cache got its
\* servers in the order names
CallFindToolsByDescription ==
  /\ left > 0
  /\ \E keywords \in SearchKeywords, names \in Orders \cup {<<SrvA>>, <<SrvB>>, <<>>} :
       /\ Range(names) = DOMAIN available_tools
       /\ ret' = [k |-> "returned",
                  op |-> [fn |-> "find_tools_by_description", keywords |-> keywords,
                          names |-> names],
                  rv |-> RetVal(find_tools_by_description(available_tools, names, keywords)),
                  frame |-> Frame("find_tools_by_description", 0, <<>>)]
  /\ left' = left - 1
  /\ UNCHANGED <<obj, clients, connected_servers, available_tools, lock, enabled,
                 toolcalls, tasks, servers, configs, file, error_stats, threads>>

InitSearch ==
  /\ obj = <<>>
  /\ clients = <<>>
  /\ connected_servers = {}
  /\ available_tools \in SearchCaches
  /\ lock = 0
  /\ enabled = [x \in Servers |-> TRUE]
  /\ toolcalls = <<>>
  /\ tasks = <<>>
  /\ ret = NoRet
  /\ left = 1
  /\ servers = <<>>
  /\ configs = <<>>
  /\ file = [t |-> "missing"]
  /\ error_stats = NewErrorStats
  /\ threads = <<>>

SpecSearch == InitSearch /\ [][CallFindToolsByDescription]_vars

\* ------------------------------------------- health checks between restarts
\* the restarts of one server, with health checks among them
NextHealth ==
  \/ CallConnectToServers
  \/ CallDisconnectFromServers
  \/ CallReconnectServer
  \/ CallHealthCheckServers
  \/ RestartEvents
  \/ \E t \in TaskIds : PingDone(t)
  \/ LoopEvents

SpecHealth == InitRestart /\ [][NextHealth]_vars

\* ------------------------------------ the configuration changes meanwhile
\* disable_server(server_name) or remove_server(server_name) of the
\* configuration store: the server is no longer among the enabled servers.
\* Neither is a coroutine and neither calls the client manager.
CallDisableServer ==
  /\ left > 0
  /\ \E x \in Servers, fn \in {"disable_server", "remove_server"} :
       /\ enabled[x]
       /\ enabled' = [enabled EXCEPT ![x] = FALSE]
       /\ ret' = [k |-> "returned", op |-> [fn |-> fn, server_name |-> x],
                  rv |-> RetVal(TRUE), frame |-> Frame(fn, 0, [server_name |-> x])]
  /\ left' = left - 1
  /\ UNCHANGED <<obj, clients, connected_servers, available_tools, lock,
                 toolcalls, tasks, servers, configs, file, error_stats, threads>>

NextReconfig ==
  \/ CallConnectToServers
  \/ CallDisconnectFromServers
  \/ CallReconnectServer
  \/ CallDisableServer
  \/ RestartEvents
  \/ LoopEvents

SpecReconfig == InitRestart /\ [][NextReconfig]_vars

\* ------------------------------------------------ the manager's tool calls
\* The specs of the calls: a call that passes validation, one without the
\* required parameter, one with a parameter of the wrong type, one that
\* passes True for the integer property, one whose tool name is blank and one
\* whose tool name is padded.
StrParam == <<[name |-> "q", value |-> "str"]>>
IntParam == <<[name |-> "q", value |-> "int"]>>
BoolParam == <<[name |-> "q", value |-> "str"], [name |-> "n", value |-> "bool"]>>
CallShapes == {<<ToolA, StrParam>>, <<ToolA, NoParams>>, <<ToolA, IntParam>>,
               <<ToolA, BoolParam>>,
               <<<<" ">>, StrParam>>, <<<<"a", " ">>, StrParam>>}
CallSpec(x, sh) == [server_name |-> x, tool_name |-> sh[1], parameters |-> sh[2]]
CallSpecs ==
  {CallSpec(SrvA, sh) : sh \in CallShapes} \cup {CallSpec(SrvB, <<ToolA, StrParam>>)}
BatchSpecs == {a \in CallSpecs : a.parameters = StrParam /\ a.tool_name # <<"a", " ">>}
Batches == UNION {[1..n -> BatchSpecs] : n \in 0..MaxBatch}

\* the caller of the tools makes one call at a time
NoCallRunning ==
  \A t \in TopLevel :
    tasks[t].op.fn \notin {"MCPClientManager.call_tool", "call_tools_parallel"}

\* MCPClientManager.call_tool(server_name, tool_name, parameters); the
\* caller notes how many ToolCall objects exist at the call, whether the
\* server is connected and the tools it lists
CallManagerCallTool ==
  /\ CanStart
  /\ NoCallRunning
  /\ \E a \in CallSpecs :
       Begin([fn |-> "MCPClientManager.call_tool", a |-> a,
              base |-> Len(toolcalls),
              connected |-> (a.server_name \in connected_servers),
              server_tools |-> IF a.server_name \in DOMAIN available_tools
                               THEN available_tools[a.server_name] ELSE <<>>],
             Frame("MCPClientManager.call_tool", 0, a))

\* call_tools_parallel(tool_calls)
CallToolsParallel ==
  /\ CanStart
  /\ NoCallRunning
  /\ \E tool_calls \in Batches :
       Begin([fn |-> "call_tools_parallel", tool_calls |-> tool_calls,
              base |-> Len(toolcalls)],
             Frame("call_tools_parallel", 0, [tool_calls |-> tool_calls]))

\* the configuration enables one of the servers
InitCalls ==
  /\ obj = <<>>
  /\ \E x \in Servers : enabled = [y \in Servers |-> y = x]
  /\ left = MaxOps
  /\ file = [t |-> "missing"]
  /\ error_stats = NewErrorStats
  /\ threads = <<>>
  /\ InitManager

CallsEvents ==
  \E t \in TaskIds :
    \/ WebsocketOpened(t)
    \/ InitializeDone(t)
    \/ NotificationDone(t)
    \/ DiscoveryDone(t)
    \/ CallDone(t)

NextCalls ==
  \/ CallConnectToServers
  \/ CallManagerCallTool
  \/ CallToolsParallel
  \/ CallsEvents
  \/ \E t \in TaskIds : TaskStarted(t) \/ GatherDone(t)

SpecCalls == InitCalls /\ [][NextCalls]_vars

\* The tool calls under a fair event loop: every request in flight ends
\* (its timer fires if nothing else ends it) and every coroutine that is
\* ready to run is run.
InitLive ==
  /\ obj = <<>>
  /\ \E x \in Servers : enabled = [y \in Servers |-> y = x]
  /\ left = MaxLiveOps
  /\ file = [t |-> "missing"]
  /\ error_stats = NewErrorStats
  /\ threads = <<>>
  /\ InitManager

LoopIsFair ==
  /\ WF_vars(CallsEvents)
  /\ WF_vars(\E t \in TaskIds : TaskStarted(t) \/ GatherDone(t))

SpecCallsFair == InitLive /\ [][NextCalls]_vars /\ LoopIsFair

\* ------------------------------------------------ the chat service's callers
\* the call of the provider inside generate_response ends: with a reply, a
\* timeout, an API error of the provider or another exception
GenerateDone(t) ==
  /\ At(t, "process_message", "w_generate")
  /\ \E ev \in {[k |-> "reply", r |-> c] : c \in {"long", "short", "hedged"}}
               \cup {[k |-> x, r |-> None] : x \in {"timeout", "api_error", "exc"}} :
       Event(t, ev)

\* the messages of the callers: "get" and "GET" have a tool keyword and a
\* word of the tools' description, "map" has the word and no keyword,
\* "forget" has a keyword inside a word that matches no tool
Messages ==
  {<<"g", "e", "t">>, <<"G", "E", "T">>, <<"m", "a", "p">>,
   <<"f", "o", "r", "g", "e", "t">>}

\* process_message(message, conversation_id); the caller notes how many
\* ToolCall objects exist at the call and the tools the message selects
CallProcessMessage ==
  /\ CanStart
  /\ \A t \in TopLevel : tasks[t].op.fn # "process_message"
  /\ \E message \in Messages :
       Begin([fn |-> "process_message", base |-> Len(toolcalls), message |-> message,
              selected |-> _should_use_mcp_tools(State, message).relevant_tools],
             Frame("process_message", 0, [message |-> message]))

NextChat ==
  \/ CallConnectToServers
  \/ CallProcessMessage
  \/ CallsEvents
  \/ \E t \in TaskIds : TaskStarted(t) \/ GatherDone(t) \/ GenerateDone(t)

SpecChat == InitCalls /\ [][NextChat]_vars

\* ------------------------------------------------- the error service's callers
\* The error service is one module-level object that any thread may call;
\* log_error takes no lock, so a thread can be switched out between the
\* load and the store of each of its three counter updates.
ErrorCategories == {"system", "api"}
ErrorSeverities == {"medium", "high"}
Counters == <<"total_errors", "errors_by_category", "errors_by_severity">>
Idle == [pc |-> "idle", at |-> 0, category |-> None, severity |-> None, loaded |-> 0,
         message |-> 0]

\* dict.get(key, 0)
GetCount(d, key) == IF key \in DOMAIN d THEN d[key] ELSE 0

\* the value of the counter that the thread's update is at
LoadCount(stats, th) ==
  CASE Counters[th.at] = "total_errors" -> stats.total_errors
    [] Counters[th.at] = "errors_by_category" ->
         GetCount(stats.errors_by_category, th.category)
    [] Counters[th.at] = "errors_by_severity" ->
         GetCount(stats.errors_by_severity, th.severity)

\* the store that ends the update: the loaded value plus one
StoreCount(stats, th) ==
  CASE Counters[th.at] = "total_errors" ->
         [stats EXCEPT !.total_errors = th.loaded + 1]
    [] Counters[th.at] = "errors_by_category" ->
         [stats EXCEPT !.errors_by_category = Put(@, th.category, th.loaded + 1)]
    [] Counters[th.at] = "errors_by_severity" ->
         [stats EXCEPT !.errors_by_severity = Put(@, th.severity, th.loaded + 1)]

\* get_recent_errors(limit): recent_errors[-limit:]
get_recent_errors(stats, limit) ==
  LET n == Len(stats.recent_errors)
  IN IF limit = 0 \/ limit > n THEN stats.recent_errors
     ELSE SubSeq(stats.recent_errors, n - limit + 1, n)

ErrorsUnchanged ==
  UNCHANGED <<obj, clients, connected_servers, available_tools, lock, enabled,
              toolcalls, tasks, servers, configs, file>>

\* a thread calls log_error(error, category, severity); the errors are
\* numbered in the order of the calls
CallLogError ==
  /\ left > 0
  /\ \E i \in 1..MaxThreads, category \in ErrorCategories, severity \in ErrorSeverities :
       /\ i \notin DOMAIN threads
       /\ threads' = Put(threads, i, [pc |-> "load", at |-> 1, category |-> category,
                                      severity |-> severity, loaded |-> 0,
                                      message |-> MaxLogged - left + 1])
  /\ left' = left - 1
  /\ ret' = NoRet
  /\ UNCHANGED error_stats
  /\ ErrorsUnchanged

\* the thread loads the counter it is about to add one to
LoadCounter ==
  /\ \E i \in DOMAIN threads :
       /\ threads[i].pc = "load"
       /\ threads' = [threads EXCEPT ![i].pc = "store",
                                     ![i].loaded = LoadCount(error_stats, threads[i])]
  /\ ret' = NoRet
  /\ UNCHANGED <<error_stats, left>>
  /\ ErrorsUnchanged

\* the thread stores the sum and goes on to the next counter
StoreCounter ==
  /\ \E i \in DOMAIN threads :
       /\ threads[i].pc = "store"
       /\ error_stats' = StoreCount(error_stats, threads[i])
       /\ threads' = [threads EXCEPT ![i].pc = IF threads[i].at = Len(Counters)
                                               THEN "log" ELSE "load",
                                     ![i].at = IF threads[i].at = Len(Counters)
                                               THEN @ ELSE @ + 1]
  /\ ret' = NoRet
  /\ UNCHANGED left
  /\ ErrorsUnchanged

\* the thread writes the log line and log_error returns the error id
LogErrorReturns ==
  /\ \E i \in DOMAIN threads :
       /\ threads[i].pc = "log"
       /\ threads' = Del(threads, i)
       /\ ret' = [k |-> "returned",
                  op |-> [fn |-> "log_error", category |-> threads[i].category,
                          severity |-> threads[i].severity,
                          message |-> threads[i].message],
                  rv |-> RetVal(threads[i].message), frame |-> <<>>]
  /\ UNCHANGED <<error_stats, left>>
  /\ ErrorsUnchanged

\* get_recent_errors(limit)
CallGetRecentErrors ==
  /\ \E limit \in 0..MaxLogged :
       ret' = [k |-> "returned", op |-> [fn |-> "get_recent_errors", limit |-> limit],
               rv |-> RetVal(get_recent_errors(error_stats, limit)), frame |-> <<>>]
  /\ UNCHANGED <<error_stats, threads, left>>
  /\ ErrorsUnchanged

InitErrors ==
  /\ obj = <<>>
  /\ enabled = [x \in Servers |-> TRUE]
  /\ left = MaxLogged
  /\ file = [t |-> "missing"]
  /\ error_stats = NewErrorStats
  /\ threads = <<>>
  /\ InitManager

NextErrors ==
  \/ CallLogError
  \/ LoadCounter
  \/ StoreCounter
  \/ LogErrorReturns
  \/ CallGetRecentErrors

SpecErrors == InitErrors /\ [][NextErrors]_vars

\* -------------------------------------------- claims on one protocol client
Returned(fn) == ret.k = "returned" /\ ret.op.fn = fn
Terminal == {"success", "error", "timeout"}

\* C4: MCPProtocolClient.call_tool never raises and returns a ToolCall in a
\* terminal state: not connected gives error at once and sends nothing, an
\* RPC error object gives error, a timeout gives timeout, another exception
\* gives error, a reply without error gives success with the reply's result.
C4_CallToolNeverRaises ==
  Returned("call_tool") =>
    /\ ret.rv.k = "ret"
    /\ LET tc == toolcalls[ret.rv.v]
           ev == ret.frame.ev
       IN /\ tc.status \in Terminal
          /\ ~ret.op.connected =>
               tc.status = "error" /\ ret.frame.pc = "start"
          /\ ev.k = "reply" /\ ev.r.error = "object" => tc.status = "error"
          /\ ev.k = "timeout" => tc.status = "timeout"
          /\ ev.k \in {"exc", "lost"} => tc.status = "error"
          /\ ev.k = "reply" /\ ev.r.error \in {"absent", "null"} =>
               tc.status = "success" /\ tc.result = Get(ev.r.result, EmptyDict)

\* C5: connect never raises; when it fails at any step (unsupported scheme,
\* opening the transport, the initialize request, an error reply to it) it
\* returns False and the client is not connected; it returns True only
\* after the transport opened and initialize got a reply without error.
C5_ConnectReturnsBool ==
  Returned("connect") =>
    /\ ret.rv.k = "ret"
    /\ ret.rv.v \in BOOLEAN
    /\ ret.rv.v = FALSE => ~obj[1].is_connected
    /\ ret.rv.v = TRUE <=>
         /\ obj[1].scheme \in {"http", "ws"}
         /\ ret.frame.l.open # "exc"
         /\ ret.frame.l.init_response = "ok"

\* a connect that failed on a client that was connected before
C5_Witness ==
  /\ Returned("connect")
  /\ ret.rv = RetVal(FALSE)
  /\ ret.frame.l.init_response = "err"
  /\ obj[1].server_info = "info"

\* C6: a client is never connected with connection_type none.
C6_ConnectedHasType ==
  \A c \in DOMAIN obj :
    obj[c].is_connected => obj[c].connection_type \in {"http", "websocket"}

\* C7: after disconnect returns the client is fully reset, also when a close
\* raised, and disconnect does not raise.
C7_DisconnectResets ==
  Returned("disconnect") =>
    /\ ret.rv.k = "ret"
    /\ ~obj[1].is_connected
    /\ obj[1].connection_type = "none"
    /\ obj[1].websocket = 0
    /\ obj[1].session = 0

\* C8: a disconnect called right after a disconnect returned, with no other
\* call on the client in between, leaves the client as the first one left
\* it and does not raise.
C8_DisconnectIdempotent ==
  (Returned("disconnect") /\ ret.op.again /\ left = ret.op.n) =>
    /\ ret.rv = RetVal(None)
    /\ obj[1] = ret.op.pre

\* ------------------------------------------------- claims on the manager
\* C9: the servers with a tool entry are the connected servers, in every
\* state the lifecycle operations reach in any interleaving.
C9_ToolsOfConnected == DOMAIN available_tools = connected_servers

\* C10: when connect_to_servers returns, having run with no other operation
\* of the manager, it has not raised, every server whose connect() succeeded
\* in it is connected with the tools its client discovered, and every
\* server whose connect() failed is neither connected nor has a tool entry.
C10_PartialFailureIsolated ==
  (Returned("connect_to_servers") /\ ret.op.idle /\ left = ret.op.n) =>
    /\ ret.rv = RetVal(None)
    /\ ret.frame.pc = "w_gather" =>
         \A i \in DOMAIN ret.frame.l.ended :
           LET f == ret.frame.l.ended[i]
               x == f.a.server_name
           IN IF f.l.success
              THEN /\ x \in connected_servers
                   /\ x \in DOMAIN available_tools
                   /\ available_tools[x] = obj[f.c].available_tools
              ELSE /\ x \notin connected_servers
                   /\ x \notin DOMAIN available_tools

\* ------------------------------------------------ claims on the tool calls
\* the ToolCall objects the operation that has just returned handed back
ReturnedCalls ==
  IF ret.k = "returned" /\ ret.rv.k = "ret"
  THEN IF ret.op.fn \in {"call_tool", "MCPClientManager.call_tool"}
       THEN {ret.rv.v}
       ELSE IF ret.op.fn = "call_tools_parallel" THEN Range(ret.rv.v)
       ELSE {}
  ELSE {}

\* C1: call_tools_parallel returns a list as long as its input, and the
\* i-th ToolCall carries the tool name and the server name of the i-th spec,
\* whichever calls fail, time out or raise.
C1_BatchAligned ==
  Returned("call_tools_parallel") =>
    /\ ret.rv.k = "ret"
    /\ Len(ret.rv.v) = Len(ret.op.tool_calls)
    /\ \A i \in DOMAIN ret.rv.v :
         /\ toolcalls[ret.rv.v[i]].tool_name = ret.op.tool_calls[i].tool_name
         /\ toolcalls[ret.rv.v[i]].server_name = ret.op.tool_calls[i].server_name

\* C2 as stated: every returned ToolCall is terminal with exactly one of
\* result and error set, a success carrying a non-empty result and no
\* error, an error or a timeout carrying an error and no result.
C2_ExactlyOneSet ==
  \A i \in ReturnedCalls :
    LET tc == toolcalls[i] IN
    /\ tc.status \in Terminal
    /\ tc.status = "success" => Truthy(tc.result) /\ tc.error = NoError
    /\ tc.status \in {"error", "timeout"} => tc.error # NoError /\ tc.result = None

\* C2 as the code has it: every returned ToolCall is terminal; an error or
\* a timeout carries an error and no result; a success carries no error,
\* and its result is what the reply carried, which may be empty or null.
C2_TerminalOutcome ==
  \A i \in ReturnedCalls :
    LET tc == toolcalls[i] IN
    /\ tc.status \in Terminal
    /\ tc.status = "success" =>
         tc.error = NoError /\ tc.result \in {None, EmptyDict, "data"}
    /\ tc.status \in {"error", "timeout"} => tc.error # NoError /\ tc.result = None

\* a batch came back with a success without a result next to a timeout
C2_Witness ==
  /\ Returned("call_tools_parallel")
  /\ \E i, j \in ReturnedCalls :
       /\ toolcalls[i].status = "success"
       /\ toolcalls[i].result = None
       /\ toolcalls[j].status = "timeout"

\* C3: the ToolCall of a call in flight is pending; every ToolCall handed
\* back is terminal, was made by the call that hands it back and appears
\* once in its result; a terminal ToolCall stays as it is for ever.
C3_InFlightPending ==
  \A t \in DOMAIN tasks :
    (tasks[t].stack # <<>> /\ Top(State, t).fn = "call_tool"
       /\ Top(State, t).pc = "w_call") =>
      toolcalls[Top(State, t).l.tc].status = "pending"
C3_ReturnedFresh ==
  /\ \A i \in ReturnedCalls : toolcalls[i].status \in Terminal /\ i > ret.op.base
  /\ Returned("call_tools_parallel") /\ ret.rv.k = "ret" =>
       \A j, k \in DOMAIN ret.rv.v : j # k => ret.rv.v[j] # ret.rv.v[k]
C3_TerminalStays ==
  \A i \in DOMAIN toolcalls :
    /\ i \in DOMAIN toolcalls'
    /\ toolcalls[i].status \in Terminal => toolcalls'[i] = toolcalls[i]
C3_MarkedOnce ==
  /\ [](C3_InFlightPending /\ C3_ReturnedFresh)
  /\ [][C3_TerminalStays]_vars

\* a batch of two came back, one success and one error, after an earlier
\* call had left its ToolCall
C3_Witness ==
  /\ Returned("call_tools_parallel")
  /\ ret.rv.k = "ret"
  /\ ret.op.base > 0
  /\ \E i, j \in ReturnedCalls :
       toolcalls[i].status = "success" /\ toolcalls[j].status = "error"

\* ------------------------------------------------ claims on the health check
\* an operation of the manager that has just returned and ran with no other
\* operation of the manager
ReturnedAlone(fn) == Returned(fn) /\ ret.op.idle /\ left = ret.op.n

\* C11: when health_check_servers returns, having run with no other
\* operation of the manager, every server whose check failed is out of
\* connected_servers and has no tool entry, and every server whose check
\* passed is connected with the tool entry it had at the call.
C11_UnhealthyEvicted ==
  (ReturnedAlone("health_check_servers") /\ ret.frame.pc = "w_gather") =>
    \A i \in DOMAIN ret.frame.l.ended :
      LET f == ret.frame.l.ended[i]
          x == f.a.server_name
      IN IF f.l.is_healthy
         THEN /\ x \in connected_servers
              /\ x \in DOMAIN available_tools
              /\ x \in DOMAIN ret.op.tools
              /\ available_tools[x] = ret.op.tools[x]
         ELSE /\ x \notin connected_servers
              /\ x \notin DOMAIN available_tools

\* one server failed its check and another one passed
C11_Witness ==
  /\ ReturnedAlone("health_check_servers")
  /\ ret.frame.pc = "w_gather"
  /\ \E i, j \in DOMAIN ret.frame.l.ended :
       /\ ~ret.frame.l.ended[i].l.is_healthy
       /\ ret.frame.l.ended[j].l.is_healthy
       /\ ret.frame.l.ended[j].a.server_name \in connected_servers

\* ------------------------------------------ claims on parameter validation
\* C12: MCPClientManager.call_tool on a connected server, for a known tool
\* and parameters that omit a required property or give a declared property
\* a value of the wrong basic type, returns an error ToolCall whose message
\* names such a property, and the client's call_tool is not invoked.
\* HasJsonType: a value has the basic type a JSON schema names; Offending:
\* the properties that are required and omitted, or declared and given a
\* value of another basic type.
C12_InvalidParametersRejected ==
  LET HasJsonType(value, type) ==
        CASE type = "string" -> value = "str"
          [] type = "number" -> value \in {"int", "float"}
          [] type = "integer" -> value = "int"
          [] type = "boolean" -> value = "bool"
          [] type = "array" -> value = "list"
          [] type = "object" -> value = "dict"
      Offending(server_tools, a) ==
        LET found == SelectSeq(server_tools, LAMBDA tool : tool.name = a.tool_name)
            schema == found[1].inputSchema
            given == {a.parameters[i].name : i \in DOMAIN a.parameters}
        IN IF found = <<>> THEN {}
           ELSE (Range(schema.required) \ given) \cup
                {a.parameters[i].name : i \in
                   {j \in DOMAIN a.parameters :
                      /\ a.parameters[j].name \in DOMAIN schema.properties
                      /\ ~HasJsonType(a.parameters[j].value,
                                      schema.properties[a.parameters[j].name])}}
  IN (/\ Returned("MCPClientManager.call_tool")
      /\ ret.op.connected
      /\ Offending(ret.op.server_tools, ret.op.a) # {}) =>
       /\ ret.rv.k = "ret"
       /\ ret.frame.pc = "start"
       /\ toolcalls[ret.rv.v].status = "error"
       /\ \E p \in Offending(ret.op.server_tools, ret.op.a) :
            p \in Range(toolcalls[ret.rv.v].error)

\* --------------------------------------------- claims on a batch's timeouts
\* a step in which a ToolCall in flight is marked timeout changes no other
\* ToolCall, no other task, no client and nothing the manager keeps
C13_TimeoutStep ==
  \A i \in DOMAIN toolcalls :
    (toolcalls[i].status = "pending" /\ toolcalls'[i].status = "timeout") =>
      /\ obj' = obj
      /\ clients' = clients
      /\ connected_servers' = connected_servers
      /\ available_tools' = available_tools
      /\ \A j \in DOMAIN toolcalls \ {i} : toolcalls'[j] = toolcalls[j]
      /\ \A u \in DOMAIN tasks :
           \/ /\ ~Finished(State, u)
              /\ At(u, "call_tool", "w_call")
              /\ Top(State, u).l.tc = i
           \/ (u \in DOMAIN tasks' /\ tasks'[u] = tasks[u])

\* when the batch has been gathered, every call of it that got an answer to
\* its request is in the state this answer dictates
C13_OwnOutcome ==
  (Returned("call_tools_parallel") /\ ret.frame.pc = "w_gather") =>
    \A i \in DOMAIN ret.frame.l.ended :
      LET f == ret.frame.l.ended[i] IN
      (f.pc = "after_call" /\ f.l.called.ev.k # "none") =>
        LET ev == f.l.called.ev
            tc == toolcalls[f.l.called.l.tc]
        IN tc.status = (CASE ev.k = "timeout" -> "timeout"
                          [] ev.k = "reply" /\ ~Truthy(ev.r.error) -> "success"
                          [] OTHER -> "error")

C14_UpdateUnderLock ==
  LET Touched ==
        {u \in DOMAIN tasks \cup DOMAIN tasks' :
           u \notin DOMAIN tasks \/ u \notin DOMAIN tasks' \/ tasks'[u] # tasks[u]}
      RootOf(u) ==
        LET task == IF u \in DOMAIN tasks THEN tasks[u] ELSE tasks'[u]
        IN IF task.parent = 0 THEN u ELSE task.parent
      OpOf(r) == IF r \in DOMAIN tasks THEN tasks[r].op ELSE tasks'[r].op
      Lockers ==
        {r \in {RootOf(u) : u \in Touched} :
           OpOf(r).fn \in {"connect_to_servers", "disconnect_from_servers"}}
  IN <<clients, connected_servers, available_tools>>' #
       <<clients, connected_servers, available_tools>> =>
       \A r \in Lockers :
         /\ lock \in {0, r}
         /\ lock = r \/ lock' = r \/ r \notin DOMAIN tasks'

\* a coroutine that gives up the lock has returned
C14_ReleaseAtEnd ==
  \A r \in DOMAIN tasks : (lock = r /\ lock' # r) => r \notin DOMAIN tasks'

\* C14: connect_to_servers and disconnect_from_servers are mutually
\* exclusive: from the first to the last update of clients,
\* connected_servers and available_tools by one of them the other makes no
\* update, so that the two take effect one after the other.
C14_MutuallyExclusive == [][C14_UpdateUnderLock /\ C14_ReleaseAtEnd]_vars

\* connect_to_servers has connected a server and still holds the lock while
\* disconnect_from_servers waits for it
C14_Witness ==
  \E u, v \in TopLevel :
    /\ tasks[u].op.fn = "connect_to_servers"
    /\ tasks[v].op.fn = "disconnect_from_servers"
    /\ lock = u
    /\ connected_servers # {}
    /\ At(v, "disconnect_from_servers", "w_lock")

\* ------------------------------------------------- claims on the request ids
\* C15: within one MCPProtocolClient the requests get the ids
\* "{server_name}-{n}" with n = 1, 2, 3, ... in the order they are issued:
\* strictly increasing by one and none issued twice, also when concurrent
\* calls issue them and across disconnect and reconnect.
C15_RequestIdsCount ==
  \A c \in DOMAIN obj :
    /\ Len(obj[c].issued) = obj[c].request_id_counter
    /\ \A n \in DOMAIN obj[c].issued : obj[c].issued[n] = <<obj[c].name, n>>

\* a client that has opened a second transport and has two requests of
\* concurrent calls in flight
C15_Witness ==
  \E c \in DOMAIN obj :
    /\ obj[c].opened >= 2
    /\ Len(obj[c].issued) >= 3
    /\ \E t, u \in DOMAIN tasks :
         /\ t # u
         /\ \A w \in {t, u} :
              /\ tasks[w].stack # <<>>
              /\ Top(State, w).c = c
              /\ Top(State, w).via # "none"

\* ------------------------------------------------------- MCPConfigManager
\* A JSON value is a record with its type t and, but for a missing key, its
\* text v.  A server entry is an object with the members name, endpoint,
\* enabled, timeout and available_tools (authentication and max_retries are
\* carried like timeout and left out).
J(t, v) == [t |-> t, v |-> v]
Absent == [t |-> "absent"]

\* the decimal numeral of an integer from 0 to 99, and the integer of a
\* numeral (-1 when the text is none)
FormatInt(n) ==
  LET digit == [i \in 0..9 |->
                  <<"0", "1", "2", "3", "4", "5", "6", "7", "8", "9">>[i + 1]]
  IN IF n < 10 THEN <<digit[n]>> ELSE <<digit[n \div 10], digit[n % 10]>>
ParseInt(v) ==
  IF \E n \in 0..99 : FormatInt(n) = v
  THEN CHOOSE n \in 0..99 : FormatInt(n) = v ELSE -1

\* the servers dict, the objects it refers to, and a configuration's values
Store == [servers |-> servers, configs |-> configs]
StoredNames(K) == {K.servers[i].name : i \in DOMAIN K.servers}
ViewOf(K) == [i \in DOMAIN K.servers |-> K.configs[K.servers[i].ref]]
ConfigurationError == Raise("MCPConfigurationError")

\* MCPServerConfig(**server_data): the field validators and pydantic's
\* conversions; ok is false when validation raises
MCPServerConfig(server_data) ==
  LET d == server_data
      name_ok == /\ d.name.t = "str"
                 /\ strip(d.name.v) # <<>>
                 /\ \A i \in DOMAIN d.name.v : d.name.v[i] \in {"s", "t", "-", "_"}
                 /\ \E i \in DOMAIN d.name.v : d.name.v[i] \in {"s", "t"}
      endpoint_ok == d.endpoint.t = "str" /\ strip(d.endpoint.v) # <<>>
      enabled_ok == \/ d.enabled.t \in {"absent", "bool"}
                    \/ d.enabled.t = "str" /\ d.enabled.v \in {<<"y">>, <<"n">>}
      timeout_v == CASE d.timeout.t = "absent" -> 30
                     [] d.timeout.t \in {"int", "str"} -> ParseInt(d.timeout.v)
                     [] OTHER -> -1
  IN [ok |-> name_ok /\ endpoint_ok /\ enabled_ok /\ timeout_v > 0,
      cfg |-> [name |-> IF name_ok THEN strip(d.name.v) ELSE <<>>,
               endpoint |-> IF endpoint_ok THEN strip(d.endpoint.v) ELSE <<>>,
               enabled |-> CASE d.enabled.t = "bool" -> d.enabled.v = <<"true">>
                             [] d.enabled.t = "str" -> d.enabled.v = <<"y">>
                             [] OTHER -> TRUE,
               timeout |-> timeout_v,
               available_tools |-> IF d.available_tools.t = "list"
                                   THEN d.available_tools.v ELSE <<>>]]

\* a dump that leaves out the enabled flag
model_dump_without_enabled(cfg) ==
  [t |-> "object", name |-> J("str", cfg.name), endpoint |-> J("str", cfg.endpoint),
   enabled |-> Absent, timeout |-> J("int", FormatInt(cfg.timeout)),
   available_tools |-> J("list", cfg.available_tools)]

\* BaseModel.model_dump() as json.dump writes it
model_dump(cfg) ==
  [t |-> "object", name |-> J("str", cfg.name), endpoint |-> J("str", cfg.endpoint),
   enabled |-> J("bool", IF cfg.enabled THEN <<"true">> ELSE <<"false">>),
   timeout |-> J("int", FormatInt(cfg.timeout)),
   available_tools |-> J("list", cfg.available_tools)]

\* the store with one more object, filed under its name
Stored(K, cfg) ==
  [servers |-> Append(K.servers, [name |-> cfg.name, ref |-> Len(K.configs) + 1]),
   configs |-> Append(K.configs, cfg)]

\* _validate_and_load_servers: the dict is emptied, then the entries are
\* filed one by one until one of them raises
_validate_and_load_servers(K, config_data) ==
  LET servers_data == IF config_data.servers.t = "absent"
                      THEN J("list", <<>>) ELSE config_data.servers
      RECURSIVE loop(_, _)
      loop(K1, i) ==
        IF i > Len(servers_data.v) THEN [K |-> K1, rv |-> RetVal(None)]
        ELSE LET server_data == servers_data.v[i]
                 server_config == IF server_data.t = "object"
                                  THEN MCPServerConfig(server_data)
                                  ELSE [ok |-> FALSE]
             IN IF ~server_config.ok THEN [K |-> K1, rv |-> ConfigurationError]
                ELSE IF server_config.cfg.name \in StoredNames(K1)
                THEN [K |-> K1, rv |-> ConfigurationError]
                ELSE loop(Stored(K1, server_config.cfg), i + 1)
  IN IF servers_data.t # "list" THEN [K |-> K, rv |-> ConfigurationError]
     ELSE loop([K EXCEPT !.servers = <<>>], 1)

\* load_configuration: f is the content of the file
load_configuration(K, f) ==
  CASE f.t = "missing" -> [K |-> [K EXCEPT !.servers = <<>>], rv |-> RetVal(None)]
    [] f.t = "object" -> _validate_and_load_servers(K, f)
    [] OTHER -> [K |-> K, rv |-> ConfigurationError]

\* import_configuration
import_configuration(K, config_data) ==
  IF config_data.t # "object" THEN [K |-> K, rv |-> ConfigurationError]
  ELSE _validate_and_load_servers(K, config_data)

\* save_configuration: what it writes to the file
save_configuration(K) ==
  [t |-> "object",
   servers |-> J("list", [i \in DOMAIN K.servers |-> model_dump(ViewOf(K)[i])])]

\* add_server
add_server(K, server_config) ==
  IF server_config.name \in StoredNames(K) THEN [K |-> K, rv |-> ConfigurationError]
  ELSE [K |-> Stored(K, server_config), rv |-> RetVal(None)]

\* an update_server that files the object under the name it carries
update_server_by_own_name(K, server_name, server_config) ==
  IF server_name \notin StoredNames(K) THEN [K |-> K, rv |-> ConfigurationError]
  ELSE [K |-> Stored([K EXCEPT !.servers =
                        SelectSeq(@, LAMBDA e : e.name # server_config.name)],
                     server_config),
        rv |-> IF server_config.name # server_name
               THEN ConfigurationError ELSE RetVal(None)]

\* update_server
update_server(K, server_name, server_config) ==
  IF server_name \notin StoredNames(K) THEN [K |-> K, rv |-> ConfigurationError]
  ELSE IF server_config.name # server_name THEN [K |-> K, rv |-> ConfigurationError]
  ELSE [K |-> [servers |-> [i \in DOMAIN K.servers |->
                              IF K.servers[i].name = server_name
                              THEN [name |-> server_name, ref |-> Len(K.configs) + 1]
                              ELSE K.servers[i]],
               configs |-> Append(K.configs, server_config)],
        rv |-> RetVal(None)]

\* remove_server
remove_server(K, server_name) ==
  IF server_name \notin StoredNames(K) THEN [K |-> K, rv |-> ConfigurationError]
  ELSE [K |-> [K EXCEPT !.servers = SelectSeq(@, LAMBDA e : e.name # server_name)],
        rv |-> RetVal(None)]

\* enable_server (value true) and disable_server (value false)
enable_server(K, server_name, value) ==
  IF server_name \notin StoredNames(K) THEN [K |-> K, rv |-> ConfigurationError]
  ELSE LET e == CHOOSE e \in Range(K.servers) : e.name = server_name
       IN [K |-> [K EXCEPT !.configs[e.ref].enabled = value], rv |-> RetVal(None)]

\* get_all_servers: a new dict of the same objects
get_all_servers(K) == K.servers
\* get_enabled_servers, as the dict it returns
get_enabled_configs(K) == SelectSeq(K.servers, LAMBDA e : K.configs[e.ref].enabled)

\* ------------------------------------- the callers of the configuration store
\* The server entries of the documents: two good ones, one of them with a
\* padded endpoint, a string for the timeout and a word for the flag; a third
\* good one under the name of the first; one with a timeout of 0; one that
\* is no object.
Entry(name, endpoint, enabled_v, timeout_v) ==
  [t |-> "object", name |-> J("str", name), endpoint |-> J("str", endpoint),
   enabled |-> enabled_v, timeout |-> timeout_v, available_tools |-> Absent]
Entries ==
  {Entry(SrvA, <<"h">>, Absent, Absent),
   Entry(SrvB, <<"h", " ">>, J("str", <<"n">>), J("str", <<"5">>)),
   Entry(SrvA, <<"w">>, J("bool", <<"false">>), J("int", <<"5">>)),
   Entry(SrvB, <<"w">>, Absent, J("int", <<"0">>)),
   [t |-> "str"]}
Documents ==
  {[t |-> "object", servers |-> J("list", q)] :
     q \in UNION {[1..n -> Entries] : n \in 0..MaxEntries}}
Files ==
  Documents \cup {[t |-> "missing"], [t |-> "str"],
                  [t |-> "object", servers |-> [t |-> "str"]],
                  [t |-> "object", servers |-> Absent]}
\* the documents handed to import_configuration start with a good entry
Imports ==
  {d \in Documents : Len(d.servers.v) = MaxEntries
                     /\ d.servers.v[1] = Entry(SrvA, <<"h">>, Absent, Absent)}
\* the MCPServerConfig objects the callers construct
Configs == {MCPServerConfig(e).cfg : e \in {d \in Entries : d.t = "object" /\ MCPServerConfig(d).ok}}

\* a call of the store: it returns or raises at once
StoreCall(fn, a, r, f) ==
  /\ left > 0
  /\ left' = left - 1
  /\ servers' = r.K.servers
  /\ configs' = r.K.configs
  /\ file' = f
  /\ ret' = [k |-> "returned",
             op |-> [fn |-> fn, a |-> a, pre |-> ViewOf(Store),
                     after |-> IF /\ ret.k = "returned"
                                  /\ ret.rv.k = "ret"
                                  /\ ret.op.fn \in {"load_configuration",
                                                    "save_configuration"}
                               THEN ret.op ELSE NoRet],
             rv |-> r.rv, frame |-> <<>>]
  /\ UNCHANGED <<obj, clients, connected_servers, available_tools, lock,
                 enabled, toolcalls, tasks, error_stats, threads>>

CallLoadConfiguration ==
  /\ ret.k = "returned" => ret.op.fn # "load_configuration"
  /\ StoreCall("load_configuration", file, load_configuration(Store, file), file)

CallImportConfiguration ==
  /\ \E config_data \in Imports :
       StoreCall("import_configuration", config_data,
                 import_configuration(Store, config_data), file)

CallSaveConfiguration ==
  /\ ret.k = "returned" => ret.op.fn # "save_configuration"
  /\ StoreCall("save_configuration", <<>>, [K |-> Store, rv |-> RetVal(None)],
               save_configuration(Store))

CallAddServer ==
  /\ \E server_config \in Configs :
       StoreCall("add_server", server_config, add_server(Store, server_config), file)

CallUpdateServer ==
  /\ \E server_name \in Servers, server_config \in Configs :
       StoreCall("update_server", <<server_name, server_config>>,
                 update_server(Store, server_name, server_config), file)

CallRemoveServer ==
  /\ \E server_name \in Servers :
       StoreCall("remove_server", server_name, remove_server(Store, server_name), file)

CallEnableServer ==
  /\ \E server_name \in Servers, value \in BOOLEAN :
       StoreCall(IF value THEN "enable_server" ELSE "disable_server", server_name,
                 enable_server(Store, server_name, value), file)

CallGetAllServers ==
  /\ ret.k = "returned" => ret.op.fn # "get_all_servers"
  /\ StoreCall("get_all_servers", <<>>,
               [K |-> Store, rv |-> RetVal(get_all_servers(Store))], file)

CallGetEnabledServers ==
  /\ ret.k = "returned" => ret.op.fn # "get_enabled_servers"
  /\ StoreCall("get_enabled_servers", <<>>,
               [K |-> Store, rv |-> RetVal(get_enabled_configs(Store))], file)

\* the holder of a returned dict sets a field of one of its objects, as
\* _discover_tools does with config.available_tools
HolderSetsField ==
  /\ ret.k = "returned"
  /\ ret.op.fn \in {"get_all_servers", "get_enabled_servers"}
  /\ \E i \in DOMAIN ret.rv.v :
       LET r == ret.rv.v[i].ref IN
       \E c \in {[configs[r] EXCEPT !.enabled = ~@],
                 [configs[r] EXCEPT !.timeout = 7],
                 [configs[r] EXCEPT !.available_tools = <<ToolA>>]} :
         /\ c # configs[r]
         /\ configs' = [configs EXCEPT ![r] = c]
  /\ UNCHANGED <<obj, clients, connected_servers, available_tools, lock, enabled,
                 toolcalls, tasks, ret, left, servers, file, error_stats, threads>>

\* the holder of a returned dict removes a key of it or adds one
HolderEditsDict ==
  /\ ret.k = "returned"
  /\ ret.op.fn \in {"get_all_servers", "get_enabled_servers"}
  /\ ret.rv.v # <<>>
  /\ \E v \in {Tail(ret.rv.v), <<[name |-> <<"_">>, ref |-> ret.rv.v[1].ref]>> \o ret.rv.v} :
       /\ Len(v) <= MaxEntries
       /\ ret' = [ret EXCEPT !.rv.v = v]
  /\ UNCHANGED <<obj, clients, connected_servers, available_tools, lock, enabled,
                 toolcalls, tasks, left, servers, configs, file, error_stats, threads>>

InitConfig ==
  /\ obj = <<>>
  /\ enabled = [x \in Servers |-> TRUE]
  /\ left = MaxConfigOps
  /\ file \in Files
  /\ error_stats = NewErrorStats
  /\ threads = <<>>
  /\ InitManager

NextConfig ==
  \/ CallLoadConfiguration
  \/ CallImportConfiguration
  \/ CallSaveConfiguration
  \/ CallAddServer
  \/ CallUpdateServer
  \/ CallRemoveServer
  \/ CallEnableServer
  \/ CallGetAllServers
  \/ CallGetEnabledServers
  \/ HolderSetsField
  \/ HolderEditsDict

SpecConfig == InitConfig /\ [][NextConfig]_vars

\* -------------------------------------------- claims on the configuration store
\* C16: a load or import that fails on a duplicate server name or on an
\* invalid entry of the servers array raises MCPConfigurationError and leaves
\* the store with no server: the entries before the offending one are not
\* applied.
C16_FailedLoadLeavesNothing ==
  (/\ ret.k = "returned"
   /\ ret.op.fn \in {"load_configuration", "import_configuration"}
   /\ ret.op.a.t = "object"
   /\ ret.op.a.servers.t = "list"
   /\ \E i \in DOMAIN ret.op.a.servers.v :
        LET e == ret.op.a.servers.v
            made == [j \in DOMAIN e |->
                       IF e[j].t = "object" THEN MCPServerConfig(e[j]) ELSE [ok |-> FALSE]]
        IN \/ ~made[i].ok
           \/ \E j \in 1..(i - 1) : made[j].ok /\ made[j].cfg.name = made[i].cfg.name) =>
    /\ ret.rv = ConfigurationError
    /\ servers = <<>>

\* C17: add_server with a name in the store, update_server with an unknown
\* name or with a config of another name, and remove_server, enable_server
\* and disable_server with an unknown name raise MCPConfigurationError and
\* leave the servers of the store and every field of each as they were.
C17_RejectedCallChangesNothing ==
  LET known == {ret.op.pre[i].name : i \in DOMAIN ret.op.pre}
      fn == ret.op.fn
      a == ret.op.a
  IN (/\ ret.k = "returned"
      /\ \/ fn = "add_server" /\ a.name \in known
         \/ fn = "update_server" /\ (a[1] \notin known \/ a[2].name # a[1])
         \/ fn \in {"remove_server", "enable_server", "disable_server"} /\ a \notin known) =>
       /\ ret.rv = ConfigurationError
       /\ ViewOf(Store) = ret.op.pre

\* update_server was given a config of another name for a server of the store
C17_Witness ==
  /\ Returned("update_server")
  /\ ret.op.a[1] \in {ret.op.pre[i].name : i \in DOMAIN ret.op.pre}
  /\ ret.op.a[2].name # ret.op.a[1]
  /\ ret.rv = ConfigurationError
  /\ Len(servers) = 2

\* C18: whatever the caller does with the dict that get_all_servers or
\* get_enabled_servers returned, with its keys or with the fields of its
\* ServerConfig objects, the servers of the store and their fields stay what
\* they were at the call.
C18_ReturnedDictDetached ==
  (ret.k = "returned" /\ ret.op.fn \in {"get_all_servers", "get_enabled_servers"}) =>
    ViewOf(Store) = ret.op.pre

\* C19: a load, the save right after it and the load right after this save
\* give the ServerConfig objects of the first load: the same names and the
\* same value of every field.
C19_RoundTrip ==
  (/\ Returned("load_configuration")
   /\ "fn" \in DOMAIN ret.op.after
   /\ ret.op.after.fn = "save_configuration"
   /\ "fn" \in DOMAIN ret.op.after.after
   /\ ret.op.after.after.fn = "load_configuration") =>
    /\ ret.rv = RetVal(None)
    /\ Range(ViewOf(Store)) = Range(ret.op.after.pre)

\* the round trip of a document whose second server is disabled by a word,
\* with a padded endpoint and a timeout given as a string
C19_Witness ==
  /\ Returned("load_configuration")
  /\ "fn" \in DOMAIN ret.op.after
  /\ ret.op.after.fn = "save_configuration"
  /\ "fn" \in DOMAIN ret.op.after.after
  /\ ret.op.after.after.fn = "load_configuration"
  /\ ret.op.after.after.a.t = "object"
  /\ Len(servers) = 2
  /\ ~ViewOf(Store)[2].enabled
  /\ ViewOf(Store)[2].timeout = 5

\* ------------------------------------------------- claims on the chat service
\* C20: when generate_response fails, by a timeout, an error of the provider
\* or any other exception, process_message does not raise: it returns a
\* result whose response is the fixed fallback text and whose ai_provider is
\* "fallback".
C20_FallbackOnFailure ==
  (Returned("process_message") /\ ret.frame.ev.k # "reply") =>
    /\ ret.rv.k = "ret"
    /\ ret.rv.v.response = [text |-> FallbackResponse.content, found |-> <<>>]
    /\ ret.rv.v.ai_provider = "fallback"

\* generate_response timed out after a tool had given a result
C20_Witness ==
  /\ Returned("process_message")
  /\ ret.frame.ev.k = "timeout"
  /\ ret.rv.k = "ret"
  /\ ret.rv.v.mcp_tools_used # <<>>
  /\ ret.rv.v.ai_provider = "fallback"

\* C21: mcp_tools_used of a process_message result has the tool_name of
\* every ToolCall that this process_message executed and that ended in
\* success, in the order of the batch, and of no other.
C21_ToolsUsedAreSuccesses ==
  (Returned("process_message") /\ ret.rv.k = "ret") =>
    LET made == SubSeq(toolcalls, ret.op.base + 1, Len(toolcalls))
        succeeded(x) ==
          \E j \in DOMAIN made :
            /\ made[j].server_name = x.server_name
            /\ made[j].tool_name = strip(x.name)
            /\ made[j].status = "success"
        successes == SelectSeq(ret.op.selected, succeeded)
    IN ret.rv.v.mcp_tools_used = [i \in DOMAIN successes |-> strip(successes[i].name)]

\* C22: when tools were selected and none of their calls gave a success
\* (each ended in error or timeout, or call_tools_parallel raised),
\* process_message returns a result, mcp_tools_used is empty and the
\* response was generated without tool context and has no tool result.
C22_AllToolsFailed ==
  (/\ Returned("process_message")
   /\ ret.op.selected # <<>>
   /\ \A i \in DOMAIN ret.frame.l.mcp_results :
        toolcalls[ret.frame.l.mcp_results[i]].status # "success") =>
    /\ ret.rv.k = "ret"
    /\ ret.rv.v.mcp_tools_used = <<>>
    /\ ret.frame.l.additional_context = None
    /\ ret.rv.v.response.found = <<>>

\* call_tools_parallel raised under a process_message that returned
C22_Witness ==
  /\ Returned("process_message")
  /\ ret.op.selected # <<>>
  /\ ret.frame.l.mcp_results = <<>>
  /\ ret.rv.k = "ret"
  /\ ret.frame.ev.k = "reply"

\* the only tool call timed out under a process_message that returned
C22_WitnessTimeout ==
  /\ Returned("process_message")
  /\ Len(ret.frame.l.mcp_results) = 1
  /\ toolcalls[ret.frame.l.mcp_results[1]].status = "timeout"
  /\ ret.rv.k = "ret"

\* C23: in every reachable state each server in connected_servers is among
\* the servers that the configuration has and enables, also after a
\* disable_server or remove_server that follows a successful connect.
C23_ConnectedAreEnabled == connected_servers \subseteq get_enabled_servers(State)

\* C24: at any time no two requests of one protocol client are in flight:
\* no two coroutines are suspended in _send_request on the same client.
C24_OneRequestOutstanding ==
  LET inflight(u) ==
        /\ ~Finished(State, u)
        /\ Top(State, u).pc \in {"w_init", "w_disc", "w_ping", "w_list", "w_call"}
  IN \A u, v \in DOMAIN tasks :
       (u # v /\ inflight(u) /\ inflight(v)) => Top(State, u).c # Top(State, v).c

\* C25: when the tools/list request of a connect fails (error reply,
\* timeout, exception or lost connection), connect returns True and the
\* client's tool catalog is empty, also when the client had discovered
\* tools in an earlier connection.
C25_FailedDiscoveryLeavesNoTools ==
  (/\ Returned("connect")
   /\ ret.frame.pc = "w_disc"
   /\ ~(ret.frame.ev.k = "reply" /\ ret.frame.ev.r \in {"tools", "notools"})) =>
    /\ ret.rv = RetVal(TRUE)
    /\ obj[ret.frame.c].available_tools = <<>>

\* C26: when disconnect_from_servers has returned and no other operation
\* is running, clients, connected_servers and available_tools are empty
\* and no protocol client that the manager created has an open session
\* or socket.
C26_NothingLeftOpen ==
  (Returned("disconnect_from_servers") /\ tasks = <<>>) =>
    /\ clients = <<>>
    /\ connected_servers = {}
    /\ available_tools = <<>>
    /\ \A i \in DOMAIN obj : obj[i].live = {}

\* C27: the steps of one connect are ordered.  A connect waits for the
\* reply to initialize only as its first request; it sends the initialized
\* notification only from there and only on a reply without error; it
\* sends tools/list only after the notification; and is_connected of a
\* client turns true only in a step in which a connect on that client
\* returns, discovery being its last part (from the wait for initialize
\* only when the client has lost its transport meanwhile, so that nothing
\* more can be sent).  So after a failed initialize neither the
\* notification nor tools/list is sent.
C27_HandshakeStep ==
  LET pc(S, t) == IF t \in DOMAIN S.tasks /\ ~Finished(S, t) /\ Top(S, t).fn = "connect"
                  THEN Top(S, t).pc ELSE "-"
      discovery_returns(t, c) ==
        /\ pc(State, t) \in {"w_init", "w_notif", "w_disc"}
        /\ Top(State, t).c = c
        /\ pc(State', t) = "-"
  IN /\ \A t \in TaskIds :
          /\ (pc(State', t) = "w_init" /\ pc(State, t) # "w_init") =>
                pc(State, t) \in {"-", "w_open"}
          /\ (pc(State', t) = "w_notif" /\ pc(State, t) # "w_notif") =>
                /\ pc(State, t) = "w_init"
                /\ Top(State', t).l.init_response = "ok"
          /\ (pc(State', t) = "w_disc" /\ pc(State, t) # "w_disc") =>
                pc(State, t) = "w_notif"
     /\ \A c \in DOMAIN obj :
          (~obj[c].is_connected /\ obj'[c].is_connected) =>
            \E t \in TaskIds : discovery_returns(t, c)

C27_HandshakeOrdered == [][C27_HandshakeStep]_vars

\* a connect went through the whole handshake and returned True
C27_Witness ==
  /\ Returned("connect")
  /\ ret.frame.pc = "w_disc"
  /\ ret.frame.l.init_response = "ok"
  /\ ret.rv = RetVal(TRUE)
  /\ obj[ret.frame.c].is_connected

\* a connect whose initialize got an error reply returned False
C27_WitnessFailed ==
  /\ Returned("connect")
  /\ ret.frame.pc = "w_init"
  /\ ret.frame.l.init_response = "err"
  /\ ret.rv = RetVal(FALSE)

\* C28: the reply that a call_tool records in its ToolCall is the server's
\* reply to the request that this call_tool sent.
C28_OwnReply ==
  (Returned("call_tool") /\ ret.frame.ev.k = "reply") =>
    ret.frame.ev.id = ret.frame.l.request_id

\* C29: a method that updates connected_servers and available_tools acts
\* as one critical section: between its first read and its last write no
\* other call updates them.  For reconnect_server and refresh_server_tools,
\* which read the two at the call and make their last write when they
\* return True: at that return the two hold what the method read, changed
\* only by the method's own update, the entry of its server.
C29_OneCriticalSection ==
  (/\ ret.k = "returned"
   /\ ret.op.fn \in {"reconnect_server", "refresh_server_tools"}
   /\ ret.rv = RetVal(TRUE)) =>
    LET x == ret.op.server_name
        read == ret.op.read
    IN /\ connected_servers = read.connected_servers \cup {x}
       /\ DOMAIN available_tools = DOMAIN read.available_tools \cup {x}
       /\ \A y \in DOMAIN read.available_tools \ {x} :
            available_tools[y] = read.available_tools[y]

\* C30: every ToolCall that a call_tool or a batch has created reaches a
\* terminal status, and a call_tools_parallel that was started returns its
\* results, also when a server never replies: the timeout ends the request.
C30_CallsEnd ==
  /\ \A i \in 1..(MaxLiveOps * MaxBatch) :
       (i \in DOMAIN toolcalls /\ toolcalls[i].status = "pending")
         ~> (i \in DOMAIN toolcalls /\ toolcalls[i].status \in Terminal)
  /\ (\E t \in TopLevel : tasks[t].op.fn = "call_tools_parallel")
       ~> (Returned("call_tools_parallel") /\ ret.rv.k = "ret")

\* C31: a process_message whose message has none of the tool keywords,
\* in any case of the letters, does not call select_tools_for_query and
\* creates no ToolCall; when it returns, mcp_tools_used is empty and the
\* provider was given no additional context.
C31_NoKeywordNoTools ==
  (/\ Returned("process_message")
   /\ \A k \in DOMAIN tool_keywords :
        ~Contains(lower(ret.op.message), tool_keywords[k])) =>
    /\ ~ret.frame.l.queried
    /\ Len(toolcalls) = ret.op.base
    /\ ret.frame.l.mcp_results = <<>>
    /\ ret.frame.l.additional_context = None
    /\ ret.rv.k = "ret" => ret.rv.v.mcp_tools_used = <<>>

\* a message without keyword returned while the cache had tools that its
\* words match
C31_Witness ==
  /\ Returned("process_message")
  /\ ret.op.message = <<"m", "a", "p">>
  /\ select_tools_for_query(State, ret.op.message) # <<>>
  /\ ret.rv.k = "ret"
  /\ ret.rv.v.mcp_tools_used = <<>>

\* C32: find_tools_by_description gives each tool of the cache three
\* points for every keyword that occurs in its name and one for every
\* keyword that occurs in its description, whatever the case of the
\* letters; it returns the tools with a positive score and no other, each
\* with server_name and relevance_score, the higher score first and tools
\* of equal score in the order of discovery (order of the servers, then
\* position in the server's list).
C32_ScoredAndSorted ==
  Returned("find_tools_by_description") =>
    LET keywords == ret.op.keywords
        names == ret.op.names
        hits(text) ==
          Cardinality({k \in DOMAIN keywords : Contains(lower(text), lower(keywords[k]))})
        RECURSIVE discovered(_)
        discovered(i) ==
          IF i > Len(names) THEN <<>>
          ELSE [j \in DOMAIN available_tools[names[i]] |->
                  LET tool == available_tools[names[i]][j]
                  IN [name |-> tool.name, description |-> tool.description,
                      inputSchema |-> tool.inputSchema, server_name |-> names[i],
                      relevance_score |-> 3 * hits(tool.name) + hits(tool.description)]]
               \o discovered(i + 1)
        scored == SelectSeq(discovered(1), LAMBDA x : x.relevance_score > 0)
        place(i) ==
          1 + Cardinality({j \in DOMAIN scored :
                            \/ scored[j].relevance_score > scored[i].relevance_score
                            \/ /\ scored[j].relevance_score = scored[i].relevance_score
                               /\ j < i})
    IN /\ ret.rv.k = "ret"
       /\ Len(ret.rv.v) = Len(scored)
       /\ \A i \in DOMAIN scored : ret.rv.v[place(i)] = scored[i]

\* a search whose best tool is of the server discovered last, followed by
\* two tools of equal score of both servers, and that left a tool out
C32_Witness ==
  /\ Returned("find_tools_by_description")
  /\ Len(ret.op.names) = 2
  /\ Len(ret.rv.v) = 3
  /\ Len(available_tools[SrvA]) + Len(available_tools[SrvB]) = 4
  /\ ret.rv.v[1].server_name = ret.op.names[2]
  /\ ret.rv.v[1].relevance_score = 4
  /\ ret.rv.v[2].relevance_score = ret.rv.v[3].relevance_score
  /\ ret.rv.v[2].server_name = ret.op.names[1]
  /\ ret.rv.v[3].server_name = ret.op.names[2]
  /\ ret.rv.v[2] # [ret.rv.v[3] EXCEPT !.server_name = ret.op.names[1]]

\* C33: MCPClientManager.call_tool for a server that is not in
\* connected_servers returns a new ToolCall in error that says the server
\* is not connected, without validating the parameters and without
\* calling a client, also when clients has an object for the server.
C33_NotConnectedRejected ==
  (Returned("MCPClientManager.call_tool") /\ ~ret.op.connected) =>
    /\ ret.rv.k = "ret"
    /\ ret.frame.pc = "start"
    /\ ret.rv.v = ret.op.base + 1
    /\ toolcalls[ret.rv.v].status = "error"
    /\ toolcalls[ret.rv.v].error = <<"Server", ret.op.a.server_name, "is not connected">>

\* ------------------------------------------------ claims on the error service
\* the calls of log_error that were made, all of them finished
Logged == MaxLogged - left
\* the sum of the counts of a dict
RECURSIVE SumOf(_)
SumOf(d) ==
  IF DOMAIN d = {} THEN 0
  ELSE LET key == CHOOSE key \in DOMAIN d : TRUE IN d[key] + SumOf(Del(d, key))

\* C34: whenever no thread is inside log_error, total_errors is the number
\* of log_error calls made so far, and so are the sum of
\* errors_by_category and the sum of errors_by_severity, also after calls
\* that ran concurrently in several threads.
C34_CountersConsistent ==
  DOMAIN threads = {} =>
    /\ error_stats.total_errors = Logged
    /\ SumOf(error_stats.errors_by_category) = Logged
    /\ SumOf(error_stats.errors_by_severity) = Logged

\* the length that the tests expect recent_errors to be cut to
RecentErrorsLimit == 100
Min(a, b) == IF a < b THEN a ELSE b

\* C35: whenever no thread is inside log_error, recent_errors holds the
\* last min(n, 100) of the n errors logged so far, each once, and
\* get_recent_errors(k) returns the last min(k, n, 100) entries of it in
\* their order.
C35_RecentErrorsKept ==
  DOMAIN threads = {} =>
    LET recent == error_stats.recent_errors
        kept == Min(Logged, RecentErrorsLimit)
    IN /\ Len(recent) = kept
       /\ {recent[i].message : i \in DOMAIN recent} = (Logged - kept + 1)..Logged
       /\ Returned("get_recent_errors") =>
            /\ Len(ret.rv.v) = Min(ret.op.limit, kept)
            /\ ret.rv.v = SubSeq(recent, kept - Len(ret.rv.v) + 1, kept)

\* ------------------------------------- claims on the servers that are skipped
\* a step in which connect_to_servers starts a connect does so only for
\* servers that had no client, and a server that has a client and is not
\* connected becomes connected only by the connect that its own
\* connect_to_servers started or by a reconnect_server for it
C36_ConnectStep ==
  LET Started == DOMAIN tasks' \ DOMAIN tasks
      Touched ==
        {u \in DOMAIN tasks \cup DOMAIN tasks' :
           u \notin DOMAIN tasks \/ u \notin DOMAIN tasks' \/ tasks'[u] # tasks[u]}
  IN \A x \in Servers :
       /\ \A u \in Started :
            (/\ tasks'[u].stack # <<>>
             /\ tasks'[u].stack[1].fn = "_connect_single_server"
             /\ tasks'[u].stack[1].a.server_name = x) => x \notin DOMAIN clients
       /\ (x \in DOMAIN clients /\ x \notin connected_servers /\ x \in connected_servers') =>
            \E u \in Touched \cap DOMAIN tasks :
              \/ /\ tasks[u].parent = 0
                 /\ tasks[u].op.fn = "reconnect_server"
                 /\ tasks[u].op.server_name = x
              \/ /\ tasks[u].parent # 0
                 /\ tasks[u].stack[1].fn = "_connect_single_server"
                 /\ tasks[u].stack[1].a.server_name = x
                 /\ tasks[u].stack[1].c = clients[x]

\* C36: connect_to_servers never tries to connect a server that already
\* has a client: a server whose first connect failed or that a failed
\* health check evicted stays out of connected_servers through later
\* connect_to_servers calls, until a reconnect_server for it succeeds or
\* disconnect_from_servers clears clients.
C36_NoSecondAttempt == [][C36_ConnectStep]_vars

\* connect_to_servers returned without starting a connect while an enabled
\* server, evicted by a health check, has its client and is not connected
C36_Witness ==
  /\ Returned("connect_to_servers")
  /\ ret.frame.pc = "start"
  /\ tasks = <<>>
  /\ \E x \in Servers :
       /\ enabled[x]
       /\ x \in DOMAIN clients
       /\ x \notin connected_servers
       /\ obj[clients[x]].is_connected

\* the same after the first connect of the server had failed
C36_WitnessFailedConnect ==
  /\ Returned("connect_to_servers")
  /\ ret.frame.pc = "start"
  /\ tasks = <<>>
  /\ \E x \in Servers :
       /\ enabled[x]
       /\ x \in DOMAIN clients
       /\ x \notin connected_servers
       /\ ~obj[clients[x]].is_connected

\* C37: in every reachable state each server in connected_servers has a
\* client in clients, also when reconnect_server runs while
\* disconnect_from_servers does.
C37_ConnectedHaveClients == connected_servers \subseteq DOMAIN clients

\* C38: in every reachable state the client of each server in
\* connected_servers, and of each server with an entry in available_tools,
\* has is_connected true: once a request found the socket closed, the
\* manager lists the server no longer.
C38_ConnectedClientsAreConnected ==
  \A x \in (connected_servers \cup DOMAIN available_tools) \cap DOMAIN clients :
    obj[clients[x]].is_connected

\* C39: the map that health_check_servers returns has one entry for each
\* server that was in connected_servers at the call and for no other, and
\* the entry of a server is the outcome of the check of that server, also
\* when a connected server has no client in clients.
C39_OneEntryEach ==
  Returned("health_check_servers") =>
    /\ ret.rv.k = "ret"
    /\ DOMAIN ret.rv.v = ret.op.connected_servers
    /\ ret.frame.pc = "w_gather" =>
         \A i \in DOMAIN ret.frame.l.ended :
           LET f == ret.frame.l.ended[i]
           IN /\ f.a.server_name \in DOMAIN ret.rv.v
              /\ ret.rv.v[f.a.server_name] = f.l.is_healthy

\* a step in which a client creates a session or a websocket finds the
\* handle that it replaces null or closed
C40_OpenStep ==
  \A c \in DOMAIN obj :
    obj'[c].opened > obj[c].opened =>
      LET handle == IF obj[c].scheme = "ws" THEN obj[c].websocket ELSE obj[c].session
      IN handle = 0 \/ handle \notin obj[c].live

\* C40: connect never overwrites an open transport handle: whenever a
\* client opens a new session or websocket, the session or websocket it
\* held before is None or already closed, also in a reconnect_server of a
\* server that a health check evicted and in a connect that follows a
\* failed handshake.
C40_NoHandleOverwritten == [][C40_OpenStep]_vars

====
